---- MODULE Spec2Model ----
(***************************************************************************)
(* Verification model of the starknet-replay analysis scripts.             *)
(*                                                                         *)
(* Each script is a one-shot batch job; the model has one group of         *)
(* variables and one specification per script family:                      *)
(*   SpecLoad     - the chunked JSONL loaders (plotting/utils.py,          *)
(*                  plotting/plot_compilation_logs.py)                     *)
(*   SpecExec     - plotting/plot_execution_time.py                        *)
(*   SpecBlock    - the helpers of the block-composition scripts           *)
(*   SpecFlatten  - flatten_call_trees                                     *)
(*   SpecArtifact, SpecReport - saved artifacts and the HTML reports       *)
(*   SpecPool     - scripts/cmp-state-dumps.py                             *)
(*   SpecCall     - scripts/extract_call.py                                *)
(*   SpecParse    - plotting/parse_execution_time.py                       *)
(* A data frame is modelled by its column set and its sequence of rows;    *)
(* a row is the mapping the transform returned.                            *)
(***************************************************************************)
EXTENDS Integers, Sequences, FiniteSets, TLC

(***************************************************************************)
(* Bounds                                                                  *)
(***************************************************************************)
MaxRecords == 3
MaxChunk == 3

(***************************************************************************)
(* Generic helpers                                                         *)
(***************************************************************************)
\* Python's None, and the outcome "the call raised an exception"
None == [none |-> TRUE]
Raise == [raise |-> TRUE]

\* exit_status of a script that has not terminated yet
Running == -1

Min(a, b) == IF a <= b THEN a ELSE b

\* `needle in haystack` for strings, at word granularity: a message is a
\* sequence of words and a phrase occurs in it when it is a contiguous infix.
StrIn(needle, haystack) ==
    \E i \in 0..(Len(haystack) - Len(needle)) :
        \A k \in 1..Len(needle) : haystack[i + k] = needle[k]

(***************************************************************************)
(* Log events (spec section 3: mapping with nested fields and spans)       *)
(***************************************************************************)
CompilationFinished == <<"contract", "compilation", "finished">>
ContractCompilation == <<"contract", "compilation">>

CompilationSpan == [name |-> <<"contract", "compilation">>, class_hash |-> "0xc1", length |-> 2048]
OtherSpan == [name |-> <<"caching", "block", "range">>, class_hash |-> "0xc2", length |-> 1024]

Event(msg, spans, time, size) ==
    [fields |-> [message |-> msg, time |-> time, size |-> size], spans |-> spans]

\* the log records a file is made of
EvVm == Event(<<"contract", "compilation", "finished", "vm">>, <<OtherSpan, CompilationSpan>>, 7, 1024)
EvNative == Event(<<"contract", "compilation", "finished", "native">>, <<CompilationSpan>>, 9, 3072)
EvNoExecutor == Event(<<"contract", "compilation", "finished">>, <<CompilationSpan>>, 5, 1024)
EvNoSpan == Event(<<"contract", "compilation", "finished">>, <<OtherSpan>>, 5, 1024)
EvOther == Event(<<"contract", "execution", "finished", "native">>, <<CompilationSpan>>, 3, 1024)

Events == {EvVm, EvNative, EvNoExecutor, EvNoSpan, EvOther}

\* plotting/utils.py find_span: first span whose name contains `name`
find_span(event, name) ==
    LET hits == {i \in 1..Len(event.spans) : StrIn(name, event.spans[i].name)}
    IN  IF hits = {} THEN None
        ELSE event.spans[CHOOSE i \in hits : \A j \in hits : i <= j]

\* canonicalize with the executor defaulting to "native" instead of raising
canonicalize_default_native(event) ==
    IF ~StrIn(CompilationFinished, event.fields.message) THEN None
    ELSE LET compilation_span == find_span(event, ContractCompilation)
         IN  IF compilation_span = None THEN None
             ELSE [class_hash |-> compilation_span.class_hash,
                   time |-> event.fields.time,
                   size |-> event.fields.size \div 1024,
                   length |-> compilation_span.length \div 1024,
                   executor |-> IF StrIn(<<"vm">>, event.fields.message)
                                THEN "vm" ELSE "native"]

\* plotting/plot_compilation.py canonicalize (same body as the canonicalize of
\* load_compilation_logs and as event_to_row of plot_compilation_logs.py)
canonicalize(event) ==
    IF ~StrIn(CompilationFinished, event.fields.message) THEN None
    ELSE LET compilation_span == find_span(event, ContractCompilation)
         IN  IF compilation_span = None THEN None
             ELSE IF StrIn(<<"vm">>, event.fields.message)
                  THEN [class_hash |-> compilation_span.class_hash,
                        time |-> event.fields.time,
                        size |-> event.fields.size \div 1024,
                        length |-> compilation_span.length \div 1024,
                        executor |-> "vm"]
             ELSE IF StrIn(<<"native">>, event.fields.message)
                  THEN [class_hash |-> compilation_span.class_hash,
                        time |-> event.fields.time,
                        size |-> event.fields.size \div 1024,
                        length |-> compilation_span.length \div 1024,
                        executor |-> "native"]
             ELSE Raise


(***************************************************************************)
(* Data frames                                                             *)
(***************************************************************************)
\* pd.DataFrame(): no columns, no rows
EmptyFrame == [ndim |-> 2, columns |-> {}, rows |-> <<>>]

\* Series.dropna(): the transform's "skip" results are removed, order kept
dropna(results) == SelectSeq(results, LAMBDA r : r # None)

\* Series.apply(pd.Series): a series of mappings becomes a frame whose columns
\* are the keys of the mappings; applied to an EMPTY series pandas returns
\* the empty series itself (one-dimensional, unnamed), not a frame.
apply_pd_Series(kept) ==
    IF Len(kept) = 0
    THEN [ndim |-> 1, columns |-> {}, rows |-> <<>>]
    ELSE [ndim |-> 2,
          columns |-> UNION {DOMAIN kept[i] : i \in 1..Len(kept)},
          rows |-> kept]

\* pd.concat([a, b]) of a frame a with b (axis 0): rows of a then rows of b,
\* columns united.  A one-dimensional b is first promoted to a one-column
\* frame whose column is labelled 0, so that label joins the columns.
\* Rows are re-indexed on the united columns; a missing cell is NaN.
NaN == "NaN"
reindex(row, columns) == [c \in columns |-> IF c \in DOMAIN row THEN row[c] ELSE NaN]
\* concat with the new chunk put before the accumulated frame
concat_prepend(a, b) ==
    LET columns == a.columns \cup (IF b.ndim = 1 THEN {"0"} ELSE b.columns)
        rows == b.rows \o a.rows
    IN  [ndim |-> 2,
         columns |-> columns,
         rows |-> [i \in 1..Len(rows) |-> reindex(rows[i], columns)]]

concat(a, b) ==
    LET columns == a.columns \cup (IF b.ndim = 1 THEN {"0"} ELSE b.columns)
        rows == a.rows \o b.rows
    IN  [ndim |-> 2,
         columns |-> columns,
         rows |-> [i \in 1..Len(rows) |-> reindex(rows[i], columns)]]

\* results of Series.apply(f) on a chunk: f is called record by record, in
\* order; the first record for which f raises ends the call.
RaisingAt(f, chunk) == {i \in 1..Len(chunk) : f[chunk[i]] = Raise}
FirstRaise(f, chunk) ==
    CHOOSE i \in RaisingAt(f, chunk) : \A j \in RaisingAt(f, chunk) : i <= j
apply(f, chunk) == [i \in 1..Len(chunk) |-> f[chunk[i]]]

(***************************************************************************)
(* Transforms handed to the loaders                                        *)
(***************************************************************************)
CanonicalizeFn == [e \in Events |-> canonicalize(e)]
\* an arbitrary caller-supplied transform: keeps the records of S, skips the rest
KeepFn(S) == [e \in Events |-> IF e \in S THEN [event |-> e] ELSE None]
Transforms == {CanonicalizeFn} \cup {KeepFn(S) : S \in SUBSET Events}

(***************************************************************************)
(* State                                                                   *)
(***************************************************************************)
VARIABLES
    file,        \* the JSONL file: sequence of log records
    f,           \* the transform
    loader,      \* "load_jsonl" | "load_logs"
    chunksize,   \* CHUNKSIZE of the read
    pos,         \* records consumed by the chunk iterator
    dataset,     \* the frame accumulated so far
    applied,     \* number of records the transform has been called on
    result,      \* what the loader returned (None until it returns)
    exit_status, \* Running until the script ends, else the process exit status
    pc

loadVars == <<file, f, loader, chunksize, pos, dataset, applied, result, exit_status, pc>>

\* plot_execution_time.py (and plot_corr_syscall_speedup.py on the same dumps)
VARIABLES
    native_data,      \* content of the native dump
    vm_data,          \* content of the VM dump
    df_txs_native, df_calls_native,
    df_txs_vm, df_calls_vm,
    df_txs,           \* merged transaction table
    df_calls,         \* merged call table
    df_blocks,        \* table of plot_block_speedup
    df_txs_mixed,     \* the two tables of plot_pure_transactions
    df_txs_only_gas,
    df_by_class,      \* table of plot_time_by_class
    df_speedup,       \* table of plot_corr_syscall_speedup.py
    output_dir,       \* TRUE once the output directory exists
    written,          \* names of the files written into the output directory
    error,            \* the exception that ended the script, if any
    xpc               \* next top-level statement of the script

execVars == <<native_data, vm_data, df_txs_native, df_calls_native, df_txs_vm,
              df_calls_vm, df_txs, df_calls, df_blocks, df_txs_mixed, df_txs_only_gas,
              df_by_class, df_speedup, output_dir, written, error, xpc>>

\* the helpers of the block-composition scripts, called on one block
VARIABLES
    script,        \* which copy of the helpers
    entrypoints,  \* the block's "entrypoints" list
    ret,           \* the last helper call: [helper, outcome]
    call_trees,    \* one element of "entrypoints" as read from the block file
    call_infos     \* the same dict, which flatten_call_trees updates in place

blockVars == <<script, entrypoints, ret, call_trees, call_infos>>

\* artifacts with their sidecars, and the report generators
VARIABLES
    fs,        \* the files: path -> content
    saved,     \* the last save_*_artifact call: [artifact, metadata], or None
    args,      \* the command line of generate_report, or None
    opened,    \* the paths generate_report has passed to open(), in order
    exception, \* the exception that ended the last operation, or "none"
    rpc

reportVars == <<fs, saved, args, opened, exception, rpc>>

\* cmp-state-dumps: the dump files, the pool and what main prints
VARIABLES
    disk,      \* the dump files: path -> lines
    files,     \* what glob found, the argument of pool.map
    taken,     \* how many tasks have left the pool's task queue
    running,   \* worker -> the task it is running, 0 when it waits
    results,   \* task -> what compare returned or raised, None until then
    printed,   \* the key/count lines main has printed
    ppc

poolVars == <<disk, files, taken, running, results, printed, ppc>>

\* scripts/extract_call.py
VARIABLES
    execution_info,    \* the "execution_info" object of the file
    index_arg,         \* the call_index argument
    target_call_info,  \* what find_call returned
    stdout,            \* text written to stdout, as JSON tokens
    stderr,            \* lines written to stderr
    exit_code,         \* Running until the script ends
    cpc

callVars == <<execution_info, index_arg, target_call_info, stdout, stderr, exit_code, cpc>>

\* plotting/parse_execution_time.py
VARIABLES
    log,             \* the input file: sequence of log records
    output_file,     \* the lines of the file "<input>-execution"
    parse_chunksize, \* CHUNKSIZE of the read
    offset,          \* records consumed by the chunk iterator
    runs,            \* how many times the script has run to its end
    epc

parseVars == <<log, output_file, parse_chunksize, offset, runs, epc>>

vars == <<loadVars, execVars, blockVars, reportVars, poolVars, callVars, parseVars>>

Files == UNION {[1..n -> Events] : n \in 0..MaxRecords}

LoadStart ==
    /\ file \in Files
    /\ loader \in {"load_jsonl", "load_logs"}
    /\ f \in (IF loader = "load_jsonl" THEN Transforms ELSE {CanonicalizeFn})
    /\ chunksize \in 1..MaxChunk
    /\ pos = 0
    /\ dataset = EmptyFrame
    /\ applied = 0
    /\ result = None
    /\ exit_status = Running
    /\ pc = "loading"

\* the guard before the concat: load_jsonl rebinds `chunk` to the transformed
\* frame and tests its length; load_logs binds the frame to `chunk_df` and
\* tests the length of the raw chunk.
KeepChunk(ld, chunk, chunk_df) ==
    IF ld = "load_jsonl" THEN Len(chunk_df.rows) > 0 ELSE Len(chunk) > 0

\* one iteration of `for chunk in chunks`
ReadChunk ==
    /\ pc = "loading"
    /\ pos < Len(file)
    /\ LET chunk == SubSeq(file, pos + 1, Min(pos + chunksize, Len(file)))
       IN  IF RaisingAt(f, chunk) # {}
           THEN \* the exception leaves the loader and ends the script
                /\ applied' = applied + FirstRaise(f, chunk)
                /\ pc' = "raised"
                /\ exit_status' = 1
                /\ UNCHANGED <<pos, dataset, result>>
           ELSE LET chunk_df == apply_pd_Series(dropna(apply(f, chunk)))
                IN  /\ applied' = applied + Len(chunk)
                    /\ pos' = pos + Len(chunk)
                    /\ dataset' = IF KeepChunk(loader, chunk, chunk_df)
                                  THEN concat(dataset, chunk_df)
                                  ELSE dataset
                    /\ UNCHANGED <<result, exit_status, pc>>
    /\ UNCHANGED <<file, f, loader, chunksize>>
    /\ UNCHANGED <<execVars, blockVars, reportVars, poolVars, callVars, parseVars>>

\* the iterator is exhausted: `return dataset`
Return ==
    /\ pc = "loading"
    /\ pos = Len(file)
    /\ result' = dataset
    /\ pc' = "returned"
    /\ UNCHANGED <<file, f, loader, chunksize, pos, dataset, applied, exit_status>>
    /\ UNCHANGED <<execVars, blockVars, reportVars, poolVars, callVars, parseVars>>

LoadNext == ReadChunk \/ Return

\* no loader script is running
LoadIdle ==
    /\ file = <<>> /\ f = CanonicalizeFn /\ loader = "none" /\ chunksize = 1
    /\ pos = 0 /\ dataset = EmptyFrame /\ applied = 0 /\ result = None
    /\ exit_status = Running /\ pc = "idle"

\* extract_call.py is not running
CallIdle ==
    /\ execution_info = [execute_call_info |-> None] /\ index_arg = 0
    /\ target_call_info = None /\ stdout = <<>> /\ stderr = <<>>
    /\ exit_code = Running /\ cpc = "idle"

\* parse_execution_time.py is not running
ParseIdle ==
    /\ log = <<>> /\ output_file = <<>> /\ parse_chunksize = 1 /\ offset = 0
    /\ runs = 0 /\ epc = "idle"

\* plot_execution_time.py is not running
ExecIdle ==
    /\ native_data = [transactions |-> <<>>, calls |-> <<>>]
    /\ vm_data = [transactions |-> <<>>, calls |-> <<>>]
    /\ df_txs_native = <<>> /\ df_calls_native = <<>>
    /\ df_txs_vm = <<>> /\ df_calls_vm = <<>>
    /\ df_txs = <<>> /\ df_calls = <<>> /\ df_blocks = <<>> /\ df_speedup = <<>>
    /\ df_txs_mixed = <<>> /\ df_txs_only_gas = <<>> /\ df_by_class = <<>>
    /\ output_dir = FALSE /\ written = {}
    /\ error = [type |-> "none", line |-> 0]
    /\ xpc = "idle"

\* no block-composition helper is in use
BlockIdle ==
    /\ script = "none" /\ entrypoints = <<>>
    /\ ret = [helper |-> "none", outcome |-> None]
    /\ call_trees = None /\ call_infos = None

\* no artifact is being saved, no report generated
ReportIdle ==
    /\ fs = <<>> /\ saved = None /\ args = None
    /\ opened = <<>> /\ exception = "none" /\ rpc = "idle"

\* cmp-state-dumps is not running
PoolIdle ==
    /\ disk = <<>> /\ files = <<>> /\ taken = 0 /\ running = <<>>
    /\ results = <<>> /\ printed = <<>> /\ ppc = "idle"

LoadInit == LoadStart /\ ExecIdle /\ BlockIdle /\ ReportIdle /\ PoolIdle /\ CallIdle /\ ParseIdle

SpecLoad == LoadInit /\ [][LoadNext]_vars

(***************************************************************************)
(* plot_execution_time.py: numbers                                         *)
(*                                                                         *)
(* time_ns means and the ratios derived from them are floats in the        *)
(* script; they are modelled exactly, as reduced fractions.  A zero        *)
(* denominator gives the float results of a division by zero: inf for      *)
(* x/0 with x > 0 (num 1, den 0) and NaN for 0/0 (num 0, den 0).           *)
(***************************************************************************)
RECURSIVE GCD(_, _)
GCD(a, b) == IF b = 0 THEN a ELSE GCD(b, a % b)

Rat(n, d) ==
    IF d = 0 THEN [num |-> IF n = 0 THEN 0 ELSE 1, den |-> 0]
    ELSE LET g == GCD(n, d) IN [num |-> n \div g, den |-> d \div g]

RatInt(n) == [num |-> n, den |-> 1]
\* a / b
RatDiv(a, b) == Rat(a.num * b.den, a.den * b.num)
\* a + b (finite operands)
RatAdd(a, b) == Rat(a.num * b.den + b.num * a.den, a.den * b.den)

RECURSIVE SumSeq(_)
SumSeq(s) == IF s = <<>> THEN 0 ELSE Head(s) + SumSeq(Tail(s))
RECURSIVE RatSum(_)
RatSum(s) == IF s = <<>> THEN RatInt(0) ELSE RatAdd(Head(s), RatSum(Tail(s)))

\* groupby(...).aggregate(("time_ns", "mean")) over integer samples
mean(samples) == Rat(SumSeq(samples), Len(samples))

\* the elements of a set of integers, ascending (groupby sorts its keys)
RECURSIVE SortedSeq(_)
SortedSeq(S) ==
    IF S = {} THEN <<>>
    ELSE LET m == CHOOSE x \in S : \A y \in S : x <= y
         IN  <<m>> \o SortedSeq(S \ {m})

\* column of a frame, as a sequence
Column(rows, c) == [i \in 1..Len(rows) |-> rows[i][c]]
\* the rows selected by a predicate on the row number, order kept
RowsAt(rows, I) == [k \in 1..Cardinality(I) |-> rows[SortedSeq(I)[k]]]
nunique(values) == Cardinality({values[i] : i \in 1..Len(values)})

(***************************************************************************)
(* plot_execution_time.py: the benchmark dumps                             *)
(*                                                                         *)
(* A dump is {"transactions": [...], "calls": [...]}: one transaction      *)
(* record per execution (a transaction is executed once per lap), each     *)
(* with the position of its first call in the calls array.  Hashes are     *)
(* modelled by integers ordered as the hash strings are.                   *)
(***************************************************************************)
MaxExecs == 3
TxHashes == 1..3
\* how a dump may deviate from the reference run of the same transactions
Variants == {"same", "gas", "lap_gas", "block", "lap_block", "selector", "class",
             "resource", "call_gas"}
Scales == {1, 2}

TxBlock(tx, variant, occ) ==
    IF tx = 1 /\ variant = "lap_block" /\ occ = 2 THEN 12
    ELSE IF tx = 3 \/ (tx = 2 /\ variant = "block") THEN 11 ELSE 10

TxGas(tx, variant, occ) ==
    (CASE tx = 1 -> 500 [] tx = 2 -> 0 [] OTHER -> 700)
    + (IF tx = 1 /\ variant = "gas" THEN 1 ELSE 0)
    + (IF tx = 1 /\ variant = "lap_gas" /\ occ = 2 THEN 1 ELSE 0)

TxSteps(tx) == IF tx = 2 THEN 4 ELSE 0

\* the calls a transaction makes: transaction 3 makes none
TxCalls(tx, variant) ==
    CASE tx = 1 ->
           <<[class_hash |-> IF variant = "class" THEN "0xC" ELSE "0xA",
              selector |-> IF variant = "selector" THEN "s3" ELSE "s1",
              resource |-> "SierraGas", gas_consumed |-> 300, steps |-> 0],
             [class_hash |-> "0xB", selector |-> "s2", resource |-> "CairoSteps",
              gas_consumed |-> IF variant = "call_gas" THEN 1 ELSE 0, steps |-> 2]>>
      [] tx = 2 ->
           <<[class_hash |-> "0xB", selector |-> "s2",
              resource |-> IF variant = "resource" THEN "SierraGas" ELSE "CairoSteps",
              gas_consumed |-> 0, steps |-> 4],
             [class_hash |-> "0xA", selector |-> "s1", resource |-> "SierraGas",
              gas_consumed |-> 100, steps |-> 0]>>
      [] OTHER -> <<>>

\* measured times: they differ by executor, transaction, lap and run
TxTime(executor, scale, tx, occ) ==
    scale * (IF executor = "native" THEN <<2, 3, 5>>[tx] ELSE <<6, 4, 5>>[tx]) + (occ - 1)

CallTime(executor, scale, tx, k, occ) ==
    IF k = 2 /\ scale = 1 THEN 0
    ELSE scale * k + (IF executor = "native" THEN 0 ELSE tx) + (occ - 1)

\* number of the execution i among the executions of the same transaction
Occ(execs, i) == Cardinality({j \in 1..i : execs[j] = execs[i]})

ExecCalls(execs, variant, scale, executor, i) ==
    LET tcalls == TxCalls(execs[i], variant)
    IN  [k \in 1..Len(tcalls) |->
            [class_hash |-> tcalls[k].class_hash,
             selector |-> tcalls[k].selector,
             resource |-> tcalls[k].resource,
             time_ns |-> CallTime(executor, scale, execs[i], k, Occ(execs, i)),
             gas_consumed |-> tcalls[k].gas_consumed,
             steps |-> tcalls[k].steps]]

\* the calls array after the first n executions
RECURSIVE RawCalls(_, _, _, _, _)
RawCalls(execs, variant, scale, executor, n) ==
    IF n = 0 THEN <<>>
    ELSE RawCalls(execs, variant, scale, executor, n - 1)
         \o ExecCalls(execs, variant, scale, executor, n)

RawJson(execs, variant, scale, executor) ==
    [transactions |->
        [i \in 1..Len(execs) |->
            [hash |-> execs[i],
             block_number |-> TxBlock(execs[i], variant, Occ(execs, i)),
             time_ns |-> TxTime(executor, scale, execs[i], Occ(execs, i)),
             gas_consumed |-> TxGas(execs[i], variant, Occ(execs, i)),
             steps |-> TxSteps(execs[i]),
             first_call |-> Len(RawCalls(execs, variant, scale, executor, i - 1))]],
     calls |-> RawCalls(execs, variant, scale, executor, Len(execs))]

ExecSeqs == UNION {[1..n -> TxHashes] : n \in 0..MaxExecs}

(***************************************************************************)
(* plot_execution_time.py: load_data                                       *)
(***************************************************************************)
\* tx_hash of a call that precedes the first_call of every transaction (NaN)
NoHash == 0
NoError == [type |-> "none", line |-> 0]
Error(type, line) == [type |-> type, line |-> line]

Max(S) == CHOOSE x \in S : \A y \in S : y <= x

\* lines 126-127: gas_consumed += steps * 100, then the steps column is dropped
txs_add_steps(transactions) ==
    [i \in 1..Len(transactions) |->
        [tx_hash |-> transactions[i].hash,
         block_number |-> transactions[i].block_number,
         time_ns |-> transactions[i].time_ns,
         gas_consumed |-> transactions[i].gas_consumed + transactions[i].steps * 100,
         first_call |-> transactions[i].first_call]]

\* pd.merge_asof requires the right keys to be sorted
first_call_sorted(txs) ==
    \A j \in 1..(Len(txs) - 1) : txs[j].first_call <= txs[j + 1].first_call

\* the merge taking, of the transaction rows with the same first_call, the
\* first instead of the last
merge_asof_first_of_ties(calls, txs) ==
    [i \in 1..Len(calls) |->
        LET cands == {j \in 1..Len(txs) : txs[j].first_call <= i - 1}
            ties == {j \in cands : txs[j].first_call = txs[Max(cands)].first_call}
        IN  [tx_hash |-> IF cands = {} THEN NoHash
                         ELSE txs[CHOOSE j \in ties : \A m \in ties : j <= m].tx_hash,
             class_hash |-> calls[i].class_hash,
             selector |-> calls[i].selector,
             resource |-> calls[i].resource,
             time_ns |-> calls[i].time_ns,
             gas_consumed |-> calls[i].gas_consumed + calls[i].steps * 100]]

\* lines 128-139: the call at position i (0-based: its index label) takes the
\* tx_hash of the last transaction row whose first_call is <= i
merge_asof(calls, txs) ==
    [i \in 1..Len(calls) |->
        LET cands == {j \in 1..Len(txs) : txs[j].first_call <= i - 1}
        IN  [tx_hash |-> IF cands = {} THEN NoHash ELSE txs[Max(cands)].tx_hash,
             class_hash |-> calls[i].class_hash,
             selector |-> calls[i].selector,
             resource |-> calls[i].resource,
             time_ns |-> calls[i].time_ns,
             gas_consumed |-> calls[i].gas_consumed + calls[i].steps * 100]]

\* the grouping keeping the time of the first execution only
group_txs_first_time(txs) ==
    LET keys == SortedSeq({txs[i].tx_hash : i \in 1..Len(txs)})
    IN  [k \in 1..Len(keys) |->
            LET rows == RowsAt(txs, {i \in 1..Len(txs) : txs[i].tx_hash = keys[k]})
            IN  [tx_hash |-> keys[k],
                 block_number |-> rows[1].block_number,
                 gas_consumed |-> rows[1].gas_consumed,
                 block_number_nunique |-> nunique(Column(rows, "block_number")),
                 gas_consumed_nunique |-> nunique(Column(rows, "gas_consumed")),
                 time_ns |-> RatInt(rows[1].time_ns)]]

\* lines 141-149: one row per tx_hash, keys sorted
group_txs(txs) ==
    LET keys == SortedSeq({txs[i].tx_hash : i \in 1..Len(txs)})
    IN  [k \in 1..Len(keys) |->
            LET rows == RowsAt(txs, {i \in 1..Len(txs) : txs[i].tx_hash = keys[k]})
            IN  [tx_hash |-> keys[k],
                 block_number |-> rows[1].block_number,
                 gas_consumed |-> rows[1].gas_consumed,
                 block_number_nunique |-> nunique(Column(rows, "block_number")),
                 gas_consumed_nunique |-> nunique(Column(rows, "gas_consumed")),
                 time_ns |-> mean(Column(rows, "time_ns"))]]

\* line 154: a new group id starts wherever tx_hash differs from the row
\* above (NaN differs from everything, itself included)
RunStart(calls, i) ==
    Max({j \in 1..i : j = 1 \/ calls[j].tx_hash # calls[j - 1].tx_hash
                             \/ calls[j].tx_hash = NoHash})

\* line 155: cumcount() inside the group
call_index(calls, i) == i - RunStart(calls, i)

PairKey(tx_hash, index) == tx_hash * 1000 + index

\* lines 156-168: one row per (tx_hash, call_index), keys sorted; rows whose
\* tx_hash is NaN are left out by groupby
group_calls(calls) ==
    LET keyed == {i \in 1..Len(calls) : calls[i].tx_hash # NoHash}
        keys == SortedSeq({PairKey(calls[i].tx_hash, call_index(calls, i)) : i \in keyed})
    IN  [k \in 1..Len(keys) |->
            LET rows == RowsAt(calls, {i \in keyed :
                            PairKey(calls[i].tx_hash, call_index(calls, i)) = keys[k]})
            IN  [tx_hash |-> keys[k] \div 1000,
                 call_index |-> keys[k] % 1000,
                 class_hash |-> rows[1].class_hash,
                 selector |-> rows[1].selector,
                 resource |-> rows[1].resource,
                 gas_consumed |-> rows[1].gas_consumed,
                 class_hash_nunique |-> nunique(Column(rows, "class_hash")),
                 selector_nunique |-> nunique(Column(rows, "selector")),
                 resource_nunique |-> nunique(Column(rows, "resource")),
                 gas_consumed_nunique |-> nunique(Column(rows, "gas_consumed")),
                 time_ns |-> mean(Column(rows, "time_ns"))]]

\* lines 186-197: summed call time of a transaction for one resource,
\* 0 when it has no such call
time_by_resource(calls, resource, tx_hash) ==
    RatSum(Column(RowsAt(calls, {i \in 1..Len(calls) :
                                    /\ calls[i].resource = resource
                                    /\ calls[i].tx_hash = tx_hash}), "time_ns"))

\* lines 152, 184, 196-202
finish_txs(gtxs, gcalls) ==
    [k \in 1..Len(gtxs) |->
        LET time_ns_gas == time_by_resource(gcalls, "SierraGas", gtxs[k].tx_hash)
            time_ns_steps == time_by_resource(gcalls, "CairoSteps", gtxs[k].tx_hash)
        IN  [tx_hash |-> gtxs[k].tx_hash,
             block_number |-> gtxs[k].block_number,
             gas_consumed |-> gtxs[k].gas_consumed,
             time_ns |-> gtxs[k].time_ns,
             throughput |-> RatDiv(RatInt(gtxs[k].gas_consumed), gtxs[k].time_ns),
             time_ns_gas |-> time_ns_gas,
             time_ns_steps |-> time_ns_steps,
             resource_ratio |-> RatDiv(time_ns_gas, RatAdd(time_ns_steps, time_ns_gas))]]

\* lines 173-183, 203
finish_calls(gcalls) ==
    [k \in 1..Len(gcalls) |->
        [tx_hash |-> gcalls[k].tx_hash,
         call_index |-> gcalls[k].call_index,
         class_hash |-> gcalls[k].class_hash,
         selector |-> gcalls[k].selector,
         resource |-> gcalls[k].resource,
         gas_consumed |-> gcalls[k].gas_consumed,
         time_ns |-> gcalls[k].time_ns,
         throughput |-> RatDiv(RatInt(gcalls[k].gas_consumed), gcalls[k].time_ns)]]

Failed(e) == [error |-> e, df_txs |-> <<>>, df_calls |-> <<>>]

\* load_data(path): the two tables, or the exception that ends the script.
\* Selecting columns of a frame built from an empty array raises KeyError.
load_data(raw_json) ==
    IF Len(raw_json.transactions) = 0 THEN Failed(Error("KeyError", 104))
    ELSE IF Len(raw_json.calls) = 0 THEN Failed(Error("KeyError", 115))
    ELSE LET txs == txs_add_steps(raw_json.transactions)
         IN  IF ~first_call_sorted(txs) THEN Failed(Error("ValueError", 131))
             ELSE LET calls == merge_asof(raw_json.calls, txs)
                      gtxs == group_txs(txs)
                      gcalls == group_calls(calls)
                  IN  IF \E k \in 1..Len(gtxs) : gtxs[k].block_number_nunique # 1
                      THEN Failed(Error("AssertionError", 150))
                      ELSE IF \E k \in 1..Len(gtxs) : gtxs[k].gas_consumed_nunique # 1
                      THEN Failed(Error("AssertionError", 151))
                      ELSE IF \E k \in 1..Len(gcalls) : gcalls[k].class_hash_nunique # 1
                      THEN Failed(Error("AssertionError", 169))
                      ELSE IF \E k \in 1..Len(gcalls) : gcalls[k].selector_nunique # 1
                      THEN Failed(Error("AssertionError", 170))
                      ELSE IF \E k \in 1..Len(gcalls) : gcalls[k].resource_nunique # 1
                      THEN Failed(Error("AssertionError", 171))
                      ELSE IF \E k \in 1..Len(gcalls) : gcalls[k].gas_consumed_nunique # 1
                      THEN Failed(Error("AssertionError", 172))
                      ELSE [error |-> NoError,
                            df_txs |-> finish_txs(gtxs, gcalls),
                            df_calls |-> finish_calls(gcalls)]

(***************************************************************************)
(* plot_execution_time.py: top level of the script                         *)
(***************************************************************************)
\* `assert (a[col] == b[col]).all()`: comparing two columns of different
\* length raises ValueError, unequal cells fail the assertion
CompareColumn(a, b, col, line) ==
    IF Len(a) # Len(b) THEN Error("ValueError", line)
    ELSE IF \E i \in 1..Len(a) : a[i][col] # b[i][col] THEN Error("AssertionError", line)
    ELSE NoError

\* the first check of a list that does not pass decides the outcome
RECURSIVE FirstError(_)
FirstError(checks) ==
    IF checks = <<>> THEN NoError
    ELSE IF Head(checks) # NoError THEN Head(checks)
    ELSE FirstError(Tail(checks))

\* lines 262-272
alignment(txs_native, txs_vm, calls_native, calls_vm) ==
    FirstError(<<CompareColumn(txs_native, txs_vm, "tx_hash", 262),
                 CompareColumn(txs_native, txs_vm, "block_number", 263),
                 CompareColumn(txs_native, txs_vm, "gas_consumed", 264),
                 CompareColumn(calls_native, calls_vm, "tx_hash", 267),
                 CompareColumn(calls_native, calls_vm, "call_index", 268),
                 CompareColumn(calls_native, calls_vm, "class_hash", 269),
                 CompareColumn(calls_native, calls_vm, "selector", 270),
                 CompareColumn(calls_native, calls_vm, "resource", 271),
                 CompareColumn(calls_native, calls_vm, "gas_consumed", 272)>>)

\* the ratio taken the wrong way round
speedup_inverse(time_ns_native, time_ns_vm) == RatDiv(time_ns_native, time_ns_vm)

\* time_ns_vm / time_ns_native
speedup(time_ns_native, time_ns_vm) == RatDiv(time_ns_vm, time_ns_native)

\* lines 275-290: inner merge on tx_hash, left order kept, then the speedup
RECURSIVE merge_txs(_, _)
merge_txs(txs_native, txs_vm) ==
    IF txs_native = <<>> THEN <<>>
    ELSE LET l == Head(txs_native)
             matches == RowsAt(txs_vm, {j \in 1..Len(txs_vm) : txs_vm[j].tx_hash = l.tx_hash})
         IN  [k \in 1..Len(matches) |->
                 [tx_hash |-> l.tx_hash,
                  block_number |-> l.block_number,
                  gas_consumed |-> l.gas_consumed,
                  resource_ratio |-> l.resource_ratio,
                  time_ns_native |-> l.time_ns,
                  time_ns_gas_native |-> l.time_ns_gas,
                  time_ns_steps_native |-> l.time_ns_steps,
                  throughput_native |-> l.throughput,
                  time_ns_vm |-> matches[k].time_ns,
                  time_ns_gas_vm |-> matches[k].time_ns_gas,
                  time_ns_steps_vm |-> matches[k].time_ns_steps,
                  throughput_vm |-> matches[k].throughput,
                  speedup |-> speedup(l.time_ns, matches[k].time_ns)]]
             \o merge_txs(Tail(txs_native), txs_vm)

\* lines 309-310: DataFrame.replace on every cell of the native call table
replace(value) ==
    IF value = "SierraGas" THEN "native"
    ELSE IF value = "CairoSteps" THEN "vm"
    ELSE value

\* lines 309-311
label_native(calls) ==
    [i \in 1..Len(calls) |->
        [tx_hash |-> calls[i].tx_hash,
         call_index |-> calls[i].call_index,
         class_hash |-> replace(calls[i].class_hash),
         selector |-> replace(calls[i].selector),
         executor |-> replace(calls[i].resource),
         gas_consumed |-> calls[i].gas_consumed,
         time_ns |-> calls[i].time_ns,
         throughput |-> calls[i].throughput]]

\* lines 312-313
label_vm(calls) ==
    [i \in 1..Len(calls) |->
        [tx_hash |-> calls[i].tx_hash,
         call_index |-> calls[i].call_index,
         class_hash |-> calls[i].class_hash,
         selector |-> calls[i].selector,
         executor |-> "vm",
         gas_consumed |-> calls[i].gas_consumed,
         time_ns |-> calls[i].time_ns,
         throughput |-> calls[i].throughput]]

\* lines 315-317 without the filter of line 317
merge_calls_keep_all(calls_native, calls_vm) == calls_native \o calls_vm

\* lines 315-317: concat, then drop the calls with no time
merge_calls(calls_native, calls_vm) ==
    SelectSeq(calls_native \o calls_vm, LAMBDA c : c.time_ns # RatInt(0))

\* block speedup taken as the mean of the transactions' speedups
block_speedup_mean(txs) ==
    LET keys == SortedSeq({txs[i].block_number : i \in 1..Len(txs)})
    IN  [k \in 1..Len(keys) |->
            LET rows == RowsAt(txs, {i \in 1..Len(txs) : txs[i].block_number = keys[k]})
            IN  [block_number |-> keys[k],
                 time_ns_native |-> RatSum(Column(rows, "time_ns_native")),
                 time_ns_vm |-> RatSum(Column(rows, "time_ns_vm")),
                 gas_consumed |-> SumSeq(Column(rows, "gas_consumed")),
                 speedup |-> RatDiv(RatSum(Column(rows, "speedup")), RatInt(Len(rows)))]]

\* lines 617-624: one row per block_number (keys sorted), sums, speedup
block_speedup(txs) ==
    LET keys == SortedSeq({txs[i].block_number : i \in 1..Len(txs)})
    IN  [k \in 1..Len(keys) |->
            LET rows == RowsAt(txs, {i \in 1..Len(txs) : txs[i].block_number = keys[k]})
                time_ns_native == RatSum(Column(rows, "time_ns_native"))
                time_ns_vm == RatSum(Column(rows, "time_ns_vm"))
            IN  [block_number |-> keys[k],
                 time_ns_native |-> time_ns_native,
                 time_ns_vm |-> time_ns_vm,
                 gas_consumed |-> SumSeq(Column(rows, "gas_consumed")),
                 speedup |-> speedup(time_ns_native, time_ns_vm)]]

ExecStart ==
    \* the VM dump is any run of the reference transactions, or the run of the
    \* native dump with one deviation
    /\ \E execs_native \in ExecSeqs, execs_vm \in ExecSeqs, variant \in Variants,
          scale_native \in Scales, scale_vm \in Scales :
          /\ variant = "same" \/ execs_vm = execs_native
          /\ native_data = RawJson(execs_native, "same", scale_native, "native")
          /\ vm_data = RawJson(execs_vm, variant, scale_vm, "vm")
    /\ df_txs_native = <<>> /\ df_calls_native = <<>>
    /\ df_txs_vm = <<>> /\ df_calls_vm = <<>>
    /\ df_txs = <<>> /\ df_calls = <<>> /\ df_blocks = <<>> /\ df_speedup = <<>>
    /\ df_txs_mixed = <<>> /\ df_txs_only_gas = <<>> /\ df_by_class = <<>>
    /\ output_dir = FALSE /\ written = {}
    /\ error = NoError
    /\ xpc = "load_native"

\* an uncaught exception ends the script
Abort(e) ==
    /\ error' = e
    /\ xpc' = "aborted"

\* line 258
LoadNative ==
    /\ xpc = "load_native"
    /\ LET loaded == load_data(native_data)
       IN  IF loaded.error # NoError
           THEN Abort(loaded.error) /\ UNCHANGED <<df_txs_native, df_calls_native>>
           ELSE /\ df_txs_native' = loaded.df_txs
                /\ df_calls_native' = loaded.df_calls
                /\ xpc' = "load_vm"
                /\ UNCHANGED error
    /\ UNCHANGED <<df_txs_mixed, df_txs_only_gas, df_by_class, native_data, vm_data, df_txs_vm, df_calls_vm, df_txs, df_calls,
                   df_blocks, df_speedup, output_dir, written>>
    /\ UNCHANGED <<loadVars, blockVars, reportVars, poolVars, callVars, parseVars>>

\* line 259
LoadVm ==
    /\ xpc = "load_vm"
    /\ LET loaded == load_data(vm_data)
       IN  IF loaded.error # NoError
           THEN Abort(loaded.error) /\ UNCHANGED <<df_txs_vm, df_calls_vm>>
           ELSE /\ df_txs_vm' = loaded.df_txs
                /\ df_calls_vm' = loaded.df_calls
                /\ xpc' = "assert_aligned"
                /\ UNCHANGED error
    /\ UNCHANGED <<df_txs_mixed, df_txs_only_gas, df_by_class, native_data, vm_data, df_txs_native, df_calls_native, df_txs,
                   df_calls, df_blocks, df_speedup, output_dir, written>>
    /\ UNCHANGED <<loadVars, blockVars, reportVars, poolVars, callVars, parseVars>>

\* lines 261-272
AssertAligned ==
    /\ xpc = "assert_aligned"
    /\ LET e == alignment(df_txs_native, df_txs_vm, df_calls_native, df_calls_vm)
       IN  IF e # NoError THEN Abort(e)
           ELSE xpc' = "merge" /\ UNCHANGED error
    /\ UNCHANGED <<df_txs_mixed, df_txs_only_gas, df_by_class, native_data, vm_data, df_txs_native, df_calls_native, df_txs_vm,
                   df_calls_vm, df_txs, df_calls, df_blocks, df_speedup, output_dir,
                   written>>
    /\ UNCHANGED <<loadVars, blockVars, reportVars, poolVars, callVars, parseVars>>

\* lines 274-317; the native and VM call tables are relabelled in place
Merge ==
    /\ xpc = "merge"
    /\ df_txs' = merge_txs(df_txs_native, df_txs_vm)
    /\ df_calls_native' = label_native(df_calls_native)
    /\ df_calls_vm' = label_vm(df_calls_vm)
    /\ df_calls' = merge_calls(label_native(df_calls_native), label_vm(df_calls_vm))
    /\ xpc' = "mkdir"
    /\ UNCHANGED <<df_txs_mixed, df_txs_only_gas, df_by_class, native_data, vm_data, df_txs_native, df_txs_vm, df_blocks,
                   df_speedup, output_dir, written, error>>
    /\ UNCHANGED <<loadVars, blockVars, reportVars, poolVars, callVars, parseVars>>

\* line 637
Mkdir ==
    /\ xpc = "mkdir"
    /\ output_dir' = TRUE
    /\ xpc' = "plot_pure_transactions"
    /\ UNCHANGED <<df_txs_mixed, df_txs_only_gas, df_by_class, native_data, vm_data, df_txs_native, df_calls_native, df_txs_vm,
                   df_calls_vm, df_txs, df_calls, df_blocks, df_speedup, written, error>>
    /\ UNCHANGED <<loadVars, blockVars, reportVars, poolVars, callVars, parseVars>>

\* a plot function: save_csv / save_figure put their files into output_dir
Plot(name, names, next) ==
    /\ xpc = name
    /\ written' = written \cup names
    /\ xpc' = next
    /\ UNCHANGED <<native_data, vm_data, df_txs_native, df_calls_native, df_txs_vm,
                   df_calls_vm, df_txs, df_calls, df_speedup, output_dir, error>>
    /\ UNCHANGED <<loadVars, blockVars, reportVars, poolVars, callVars, parseVars>>

\* line 576 taken as "resource_ratio < 1": a transaction with no timed call,
\* whose ratio is NaN, is then in neither table
mixed_below_one(txs) ==
    SelectSeq(txs, LAMBDA t : /\ t.resource_ratio.den # 0
                              /\ t.resource_ratio # RatInt(1))

\* line 576: the rows whose resource_ratio is not 1; NaN != 1 is True
mixed(txs) == SelectSeq(txs, LAMBDA t : t.resource_ratio # RatInt(1))

\* line 582: the rows whose resource_ratio is 1
only_gas(txs) == SelectSeq(txs, LAMBDA t : t.resource_ratio = RatInt(1))

\* lines 573-611, called on line 639
PlotPureTransactions ==
    /\ Plot("plot_pure_transactions", {"pure-transactions.csv", "pure-transactions.svg"},
            "plot_time_by_gas")
    /\ df_txs_mixed' = mixed(df_txs)
    /\ df_txs_only_gas' = only_gas(df_txs)
    /\ UNCHANGED <<df_blocks, df_by_class>>

\* line 640
PlotTimeByGas ==
    /\ Plot("plot_time_by_gas", {"execution-time-by-gas-usage.svg"}, "plot_time_by_class")
    /\ UNCHANGED <<df_blocks, df_txs_mixed, df_txs_only_gas, df_by_class>>


\* the class hashes of the dumps in the order of a sorted index
ClassOrder == <<"0xA", "0xB", "0xC">>

\* line 390: the number of classes kept
NLargest == 40

\* a < b (finite operands)
RatLess(a, b) == a.num * b.den < b.num * a.den

\* lines 375-380: the time_ns of the rows of one group
group_times(calls, executor, class_hash) ==
    Column(SelectSeq(calls, LAMBDA c : c.executor = executor /\ c.class_hash = class_hash),
           "time_ns")

\* "mean" of a group; NaN for the group that unstack fills in
agg_mean(times) ==
    IF times = <<>> THEN Rat(0, 0) ELSE RatDiv(RatSum(times), RatInt(Len(times)))

\* lines 374-384: one row per class_hash of the call table, with the
\* aggregates of each executor side by side
unstack(calls) ==
    LET present == SelectSeq(ClassOrder,
                      LAMBDA h : \E k \in 1..Len(calls) : calls[k].class_hash = h)
    IN  [k \in 1..Len(present) |->
            [class_hash |-> present[k],
             mean_time_native |-> agg_mean(group_times(calls, "native", present[k])),
             mean_time_vm |-> agg_mean(group_times(calls, "vm", present[k])),
             total_time_native |-> agg_mean(group_times(calls, "native", present[k])),
             total_time_vm |-> agg_mean(group_times(calls, "vm", present[k]))]]

\* line 387
dropna_rows(rows) ==
    SelectSeq(rows, LAMBDA r : r.mean_time_native.den # 0 /\ r.mean_time_vm.den # 0)

\* the rows in descending order of a column, equal values in their order
RECURSIVE sort_descending(_, _)
sort_descending(rows, column) ==
    IF rows = <<>> THEN <<>>
    ELSE LET top == CHOOSE i \in 1..Len(rows) :
                       /\ \A j \in 1..Len(rows) : ~RatLess(rows[i][column], rows[j][column])
                       /\ \A j \in 1..(i - 1) : RatLess(rows[j][column], rows[i][column])
         IN  <<rows[top]>>
             \o sort_descending(RowsAt(rows, (1..Len(rows)) \ {top}), column)

\* line 390
nlargest(rows, column, n) ==
    SubSeq(sort_descending(rows, column), 1, IF Len(rows) < n THEN Len(rows) ELSE n)

\* lines 374-393
time_by_class(calls) ==
    LET kept == sort_descending(nlargest(dropna_rows(unstack(calls)), "total_time_vm", NLargest),
                                "mean_time_vm")
    IN  [k \in 1..Len(kept) |->
            [class_hash |-> kept[k].class_hash,
             mean_time_native |-> kept[k].mean_time_native,
             mean_time_vm |-> kept[k].mean_time_vm,
             total_time_native |-> kept[k].total_time_native,
             total_time_vm |-> kept[k].total_time_vm,
             speedup |-> RatDiv(kept[k].mean_time_vm, kept[k].mean_time_native)]]

\* lines 373-436, called on line 641; a call table without the rows of one
\* executor has no mean_time column for it, and dropna raises KeyError
PlotTimeByClass ==
    /\ xpc = "plot_time_by_class"
    /\ IF \A e \in {"native", "vm"} : \E k \in 1..Len(df_calls) : df_calls[k].executor = e
       THEN /\ df_by_class' = time_by_class(df_calls)
            /\ written' = written \cup {"execution-time-by-contract-class.svg"}
            /\ xpc' = "plot_call_throughput"
            /\ UNCHANGED error
       ELSE /\ Abort(Error("KeyError", 387))
            /\ UNCHANGED <<df_by_class, written>>
    /\ UNCHANGED <<native_data, vm_data, df_txs_native, df_calls_native, df_txs_vm,
                   df_calls_vm, df_txs, df_calls, df_blocks, df_txs_mixed, df_txs_only_gas,
                   df_speedup, output_dir>>
    /\ UNCHANGED <<loadVars, blockVars, reportVars, poolVars, callVars, parseVars>>

\* line 642
PlotCallThroughput ==
    /\ Plot("plot_call_throughput", {"call-throughput-distribution.svg"},
            "plot_block_speedup")
    /\ UNCHANGED <<df_blocks, df_txs_mixed, df_txs_only_gas, df_by_class>>

\* line 643
PlotBlockSpeedup ==
    /\ Plot("plot_block_speedup", {"blocks.csv", "block-speedup-distribution.svg"},
            "plot_tx_speedup")
    /\ df_blocks' = block_speedup(df_txs)
    /\ UNCHANGED <<df_txs_mixed, df_txs_only_gas, df_by_class>>

\* line 644
PlotTxSpeedup ==
    /\ Plot("plot_tx_speedup", {"tx-speedup-distribution.svg"}, "report")
    /\ UNCHANGED <<df_blocks, df_txs_mixed, df_txs_only_gas, df_by_class>>

\* lines 646-700
WriteReport ==
    /\ Plot("report", {"report.html"}, "done")
    /\ UNCHANGED <<df_blocks, df_txs_mixed, df_txs_only_gas, df_by_class>>

(***************************************************************************)
(* composition_plots/plot_corr_syscall_speedup.py on the same two dumps    *)
(***************************************************************************)
\* process_bench_data, with the rename of lines 138 / 140
process_bench_data(tx) == [tx_hash |-> tx.hash, time_ns |-> tx.time_ns]

\* line 143: inner merge on tx_hash, every native row with every VM row of
\* the same hash
RECURSIVE merge_bench(_, _)
merge_bench(native_bench, vm_bench) ==
    IF native_bench = <<>> THEN <<>>
    ELSE LET l == Head(native_bench)
             matches == RowsAt(vm_bench, {j \in 1..Len(vm_bench) :
                                            vm_bench[j].tx_hash = l.tx_hash})
         IN  [k \in 1..Len(matches) |->
                 [tx_hash |-> l.tx_hash,
                  native_time_ns |-> l.time_ns,
                  vm_time_ns |-> matches[k].time_ns]]
             \o merge_bench(Tail(native_bench), vm_bench)

process_speedup(native_vm_bench) ==
    [tx_hash |-> native_vm_bench.tx_hash,
     speedup |-> RatDiv(RatInt(native_vm_bench.vm_time_ns),
                        RatInt(native_vm_bench.native_time_ns))]

\* lines 137-146; a dump without transactions has no tx_hash column to merge on
CorrSyscallSpeedup ==
    /\ xpc = "load_native"
    /\ IF Len(native_data.transactions) = 0 \/ Len(vm_data.transactions) = 0
       THEN /\ error' = Error("KeyError", 143)
            /\ xpc' = "corr_aborted"
            /\ UNCHANGED df_speedup
       ELSE LET native_bench == [i \in 1..Len(native_data.transactions) |->
                                   process_bench_data(native_data.transactions[i])]
                vm_bench == [i \in 1..Len(vm_data.transactions) |->
                               process_bench_data(vm_data.transactions[i])]
                merged == merge_bench(native_bench, vm_bench)
            IN  /\ df_speedup' = [k \in 1..Len(merged) |-> process_speedup(merged[k])]
                /\ xpc' = "corr_done"
                /\ UNCHANGED error
    /\ UNCHANGED <<df_txs_mixed, df_txs_only_gas, df_by_class, native_data, vm_data, df_txs_native, df_calls_native, df_txs_vm,
                   df_calls_vm, df_txs, df_calls, df_blocks, output_dir, written>>
    /\ UNCHANGED <<loadVars, blockVars, reportVars, poolVars, callVars, parseVars>>

ExecNext ==
    \/ CorrSyscallSpeedup
    \/ LoadNative \/ LoadVm \/ AssertAligned \/ Merge \/ Mkdir
    \/ PlotPureTransactions \/ PlotTimeByGas \/ PlotTimeByClass
    \/ PlotCallThroughput \/ PlotBlockSpeedup \/ PlotTxSpeedup \/ WriteReport

ExecInit == ExecStart /\ LoadIdle /\ BlockIdle /\ ReportIdle /\ PoolIdle /\ CallIdle /\ ParseIdle

SpecExec == ExecInit /\ [][ExecNext]_vars

(***************************************************************************)
(* Block composition: count_tx, count_transfers, count_swaps and the       *)
(* percentage helpers, in their three copies                               *)
(*   "plot_block_composition"   plotting/plot_block_composition.py         *)
(*   "plot_transfers_swaps"     plotting/block_composition_plots/          *)
(*                              plot_transfers_swaps_composition.py        *)
(*   "block_composition"        scripts/block_composition.py               *)
(***************************************************************************)
MaxTxs == 3

TRANSFER_ENTRYPOINT_HASH == "0x83afd3f4caedc6eebf44246fe54e38c95e3179a5ec9ea81740eca5b482d12e"
SWAP_ENTRYPOINT_HASHES ==
    {"0x15543c3708653cda9d418b4ccd3be11368e40636c10c44b18cfe756b6d88b29",
     "0xe9f3b52dc560050c4c679481500c1b1e2ba7496b6a0831638c1acaedcbc6ac",
     "0x1171593aa5bdadda4d6b0efde6cc94ee7649c3163d5efeb19da6c16d63a2a63",
     "0x3276861cf5e05d6daf8f352cabb47df623eb10c383ab742fcc7abea94d5c5cc",
     "0x2c0f7bf2d6cf5304c29171bf493feb222fef84bdaf17805a6574b0c2e8bcc87"}

Scripts == {"plot_block_composition", "plot_transfers_swaps", "block_composition"}

\* entrypoints (flattened calls) by selector
EpExecute == [selector |-> "0x15d40a3d6ca2ac30f4031e42be28da9b056fef9bb7357ac5e85627ee876e5ad"]
EpTransfer == [selector |-> TRANSFER_ENTRYPOINT_HASH]
EpSwap == [selector |-> "0x1171593aa5bdadda4d6b0efde6cc94ee7649c3163d5efeb19da6c16d63a2a63"]

\* a Python list, kept apart from None
List(items) == [list |-> items]

\* the transactions a block is made of: None, and transaction records by
\* their execute_call_info (None when the transaction has no execute call)
Tx(execute_call_info) == [execute_call_info |-> execute_call_info]
BlockTxs ==
    {None,
     Tx(None),
     Tx(List(<<EpExecute, EpTransfer>>)),
     Tx(List(<<EpTransfer, EpTransfer>>)),
     Tx(List(<<EpExecute, EpSwap, EpTransfer>>)),
     Tx(List(<<EpExecute>>))}

\* outcome of a call: the returned number, or the exception raised
Returned(number) == [value |-> number]
Raised(type) == [raised |-> type]

\* count_tx (identical in the three copies)
count_tx(txs) == Len(SelectSeq(txs, LAMBDA tx : tx # None))

\* one loop iteration of count_transfers without the test on the length
transfers_in_any_length(sc, tx) ==
    IF tx = None THEN Returned(0)
    ELSE IF tx.execute_call_info = None
         THEN IF sc = "block_composition" THEN Raised("TypeError") ELSE Returned(0)
    ELSE Returned(Cardinality({i \in 1..Len(tx.execute_call_info.list) :
                     tx.execute_call_info.list[i].selector = TRANSFER_ENTRYPOINT_HASH}))

\* what one loop iteration of count_transfers adds to count, or the
\* exception it raises
transfers_in(sc, tx) ==
    IF tx = None THEN Returned(0)
    ELSE IF sc = "block_composition" /\ tx.execute_call_info = None
         THEN Raised("TypeError")   \* len(None)
    ELSE IF tx.execute_call_info # None /\ Len(tx.execute_call_info.list) <= 2
         THEN Returned(Cardinality({i \in 1..Len(tx.execute_call_info.list) :
                          tx.execute_call_info.list[i].selector = TRANSFER_ENTRYPOINT_HASH}))
    ELSE Returned(0)

is_swap(entrypoint) == entrypoint.selector \in SWAP_ENTRYPOINT_HASHES

\* what one loop iteration of count_swaps adds to count, or the exception
\* it raises; the plot_transfers_swaps copy skips every transaction that is
\* not None and subscripts the ones that are
swaps_in(sc, tx) ==
    IF sc = "plot_transfers_swaps"
    THEN IF tx # None THEN Returned(0) ELSE Raised("TypeError")
    ELSE IF tx = None THEN Returned(0)
    ELSE IF sc = "block_composition" /\ tx.execute_call_info = None
         THEN Raised("TypeError")   \* iterating None
    ELSE IF tx.execute_call_info # None
            /\ \E i \in 1..Len(tx.execute_call_info.list) :
                   is_swap(tx.execute_call_info.list[i])
         THEN Returned(1)
    ELSE Returned(0)

\* the loop `for tx in transactions` of count_transfers (what = "transfers")
\* or count_swaps (what = "swaps"): the count, or the first exception
RECURSIVE loop(_, _, _, _)
loop(what, sc, txs, count) ==
    IF txs = <<>> THEN Returned(count)
    ELSE LET step == IF what = "transfers" THEN transfers_in(sc, Head(txs))
                     ELSE swaps_in(sc, Head(txs))
         IN  IF "raised" \in DOMAIN step THEN step
             ELSE loop(what, sc, Tail(txs), count + step.value)

\* `count / n * 100`
percentage(count, n) == Rat(count * 100, n)

\* count / n * 100 of an outcome, exceptions passed on
ptg_of(outcome, n) ==
    IF "raised" \in DOMAIN outcome THEN outcome
    ELSE Returned(percentage(outcome.value, n))

IntOutcome(outcome) ==
    IF "raised" \in DOMAIN outcome THEN outcome ELSE Returned(RatInt(outcome.value))

\* count_transfers: a count in the plotting copies, a percentage of
\* len(transactions) in scripts/block_composition.py
count_transfers(sc, txs) ==
    IF sc = "block_composition"
    THEN LET counted == loop("transfers", sc, txs, 0)
         IN  IF "raised" \in DOMAIN counted THEN counted
             ELSE IF Len(txs) > 0 THEN ptg_of(counted, Len(txs)) ELSE Returned(RatInt(0))
    ELSE IntOutcome(loop("transfers", sc, txs, 0))

count_swaps(sc, txs) ==
    IF sc = "block_composition"
    THEN LET counted == loop("swaps", sc, txs, 0)
         IN  IF "raised" \in DOMAIN counted THEN counted
             ELSE IF Len(txs) > 0 THEN ptg_of(counted, Len(txs)) ELSE Returned(RatInt(0))
    ELSE IntOutcome(loop("swaps", sc, txs, 0))

\* the denominator of the percentage helpers: len(transactions) in
\* plot_block_composition.py, count_tx(transactions) in plot_transfers_swaps
tx_len(sc, txs) == IF sc = "plot_transfers_swaps" THEN count_tx(txs) ELSE Len(txs)

\* `count(...) / tx_len * 100 if tx_len > 0 else 0`: the count is only
\* evaluated when tx_len > 0
count_transfers_ptg(sc, txs) ==
    IF tx_len(sc, txs) > 0
    THEN ptg_of(loop("transfers", sc, txs, 0), tx_len(sc, txs))
    ELSE Returned(RatInt(0))

\* count_swaps_ptg dividing without looking at tx_len first
count_swaps_ptg_unguarded(sc, txs) ==
    IF "raised" \in DOMAIN loop("swaps", sc, txs, 0) THEN loop("swaps", sc, txs, 0)
    ELSE IF tx_len(sc, txs) = 0 THEN Raised("ZeroDivisionError")
    ELSE ptg_of(loop("swaps", sc, txs, 0), tx_len(sc, txs))

count_swaps_ptg(sc, txs) ==
    IF tx_len(sc, txs) > 0
    THEN ptg_of(loop("swaps", sc, txs, 0), tx_len(sc, txs))
    ELSE Returned(RatInt(0))

\* the helpers a copy defines
Helpers(sc) ==
    IF sc = "block_composition"
    THEN {"count_tx", "count_transfers", "count_swaps"}
    ELSE {"count_tx", "count_transfers", "count_swaps",
          "count_transfers_ptg", "count_swaps_ptg"}

call(helper, sc, txs) ==
    CASE helper = "count_tx" -> Returned(RatInt(count_tx(txs)))
      [] helper = "count_transfers" -> count_transfers(sc, txs)
      [] helper = "count_swaps" -> count_swaps(sc, txs)
      [] helper = "count_transfers_ptg" -> count_transfers_ptg(sc, txs)
      [] helper = "count_swaps_ptg" -> count_swaps_ptg(sc, txs)

BlockStart ==
    /\ script \in Scripts
    /\ entrypoints \in UNION {[1..n -> BlockTxs] : n \in 0..MaxTxs}
    /\ ret = [helper |-> "none", outcome |-> None]
    /\ call_trees = None /\ call_infos = None

Call(helper) ==
    /\ script \in Scripts
    /\ helper \in Helpers(script)
    /\ ret' = [helper |-> helper, outcome |-> call(helper, script, entrypoints)]
    /\ UNCHANGED <<script, entrypoints, call_trees, call_infos>>
    /\ UNCHANGED <<loadVars, execVars, reportVars, poolVars, callVars, parseVars>>

CountTx == Call("count_tx")
CountTransfers == Call("count_transfers")
CountSwaps == Call("count_swaps")
CountTransfersPtg == Call("count_transfers_ptg")
CountSwapsPtg == Call("count_swaps_ptg")

BlockNext == CountTx \/ CountTransfers \/ CountSwaps \/ CountTransfersPtg \/ CountSwapsPtg

BlockInit == BlockStart /\ LoadIdle /\ ExecIdle /\ ReportIdle /\ PoolIdle /\ CallIdle /\ ParseIdle

SpecBlock == BlockInit /\ [][BlockNext]_vars

(***************************************************************************)
(* flatten_call_trees of block_composition_plots/utils.py and of           *)
(* composition_plots/utils.py, called on one element of "entrypoints"      *)
(***************************************************************************)
MaxNodes == 4

UtilsCopies == {"block_composition_plots/utils", "composition_plots/utils"}

\* the call trees of n nodes, by shape: a node is its root entry and the
\* list of the trees of its inner calls
RECURSIVE Forests(_)
TreeShapes(n) == {[root |-> <<>>, inner |-> forest] : forest \in Forests(n - 1)}
Forests(n) ==
    IF n = 0 THEN {<<>>}
    ELSE UNION {{<<t>> \o forest : t \in TreeShapes(k), forest \in Forests(n - k)} : k \in 1..n}

\* every node gets its own root entry, named by the way to it from the top
RECURSIVE Entries(_, _)
Entries(shape, path) ==
    [root |-> [call |-> path],
     inner |-> [i \in 1..Len(shape.inner) |-> Entries(shape.inner[i], path \o <<i>>)]]

CallTrees == {Entries(shape, <<>>) : shape \in UNION {TreeShapes(n) : n \in 1..MaxNodes}}

\* itertools.chain.from_iterable over the lists
RECURSIVE chain(_)
chain(lists) == IF lists = <<>> THEN <<>> ELSE Head(lists) \o chain(Tail(lists))

\* flatmap(f, iterable) with f = flatten_call_tree, and flatten_call_tree:
\* the calls of the inner trees, then the root
RECURSIVE flatten_call_tree(_)
flatmap(iterable) ==
    chain([i \in 1..Len(iterable) |-> flatten_call_tree(iterable[i])])
\* flatten_call_tree with the root put first
flatten_call_tree_root_first(call_tree) ==
    <<call_tree.root>> \o flatmap(call_tree.inner)

flatten_call_tree(call_tree) ==
    LET calls == flatmap(call_tree.inner)
    IN  Append(calls, call_tree.root)

\* one key of flatten_call_trees
flatten_key(call_info) ==
    IF call_info # None THEN List(flatten_call_tree(call_info)) ELSE call_info

\* flatten_call_trees (the two copies are the same text)
flatten_call_trees(copy, dict) ==
    [validate_call_info |-> flatten_key(dict.validate_call_info),
     execute_call_info |-> flatten_key(dict.execute_call_info),
     fee_transfer_call_info |-> flatten_key(dict.fee_transfer_call_info)]

FlattenStart ==
    /\ script \in UtilsCopies
    /\ entrypoints = <<>>
    /\ ret = [helper |-> "none", outcome |-> None]
    /\ call_trees \in [validate_call_info : CallTrees \cup {None},
                        execute_call_info : CallTrees \cup {None},
                        fee_transfer_call_info : CallTrees \cup {None}]
    /\ call_infos = call_trees

\* apply_flattening calls flatten_call_trees once on every element
FlattenCallTrees ==
    /\ script \in UtilsCopies
    /\ ret.helper = "none"
    /\ call_infos' = flatten_call_trees(script, call_infos)
    /\ ret' = [helper |-> "flatten_call_trees", outcome |-> None]
    /\ UNCHANGED <<script, entrypoints, call_trees>>
    /\ UNCHANGED <<loadVars, execVars, reportVars, poolVars, callVars, parseVars>>

FlattenNext == FlattenCallTrees

FlattenInit == FlattenStart /\ LoadIdle /\ ExecIdle /\ ReportIdle /\ PoolIdle /\ CallIdle /\ ParseIdle

SpecFlatten == FlattenInit /\ [][FlattenNext]_vars

(***************************************************************************)
(* Artifacts and their sidecars (benchmark/plot_utils.py), and the two     *)
(* report generators (benchmark/generate_report.py, plots/generate_report  *)
(* .py).  File names are sequences of characters; a path is a directory    *)
(* (a sequence of components) and a name.                                  *)
(***************************************************************************)
MaxTitle == 3
MaxArgs == 2

\* the characters titles are made of: a letter and a character that is not
\* a letter, a digit, "-" or "_"
TitleChars == {"A", " "}
Titles == UNION {[1..n -> TitleChars] : n \in 0..MaxTitle}

Separator == "-"

\* str.lower on the characters of the model
lower(c) == IF c = "A" THEN "a" ELSE c

\* re [^a-z0-9\-_] with (?i)
Unwanted(c) == lower(c) \notin {"a", "-", "_"}

\* re.sub(r"(?i)[^a-z0-9\-_]+", separator, string): every run of unwanted
\* characters becomes one separator
RECURSIVE sub_unwanted(_)
sub_unwanted(string) ==
    IF string = <<>> THEN <<>>
    ELSE IF ~Unwanted(Head(string)) THEN <<Head(string)>> \o sub_unwanted(Tail(string))
    ELSE IF Len(string) > 1 /\ Unwanted(string[2]) THEN sub_unwanted(Tail(string))
    ELSE <<Separator>> \o sub_unwanted(Tail(string))

\* re.sub(r"-{2,}", separator, string)
RECURSIVE squeeze(_)
squeeze(string) ==
    IF Len(string) < 2 THEN string
    ELSE IF string[1] = Separator /\ string[2] = Separator THEN squeeze(Tail(string))
    ELSE <<Head(string)>> \o squeeze(Tail(string))

\* re.sub(r"(?i)^-|-$", "", string)
strip(string) ==
    LET from == IF string # <<>> /\ string[1] = Separator THEN 2 ELSE 1
        to == IF Len(string) >= from /\ string[Len(string)] = Separator
              THEN Len(string) - 1 ELSE Len(string)
    IN  SubSeq(string, from, to)

\* inflection.parameterize (transliterate leaves ASCII alone)
parameterize(string) ==
    LET stripped == strip(squeeze(sub_unwanted(string)))
    IN  [i \in 1..Len(stripped) |-> lower(stripped[i])]

Svg == <<".", "s", "v", "g">>
Csv == <<".", "c", "s", "v">>
MetaJson == <<".", "m", "e", "t", "a", ".", "j", "s", "o", "n">>

Path(dir, name) == [dir |-> dir, name |-> name]

\* PurePath.suffix: from the last dot of the name, unless the name starts
\* or ends with it
suffix(path) ==
    LET dots == {i \in 1..Len(path.name) : path.name[i] = "."}
    IN  IF dots = {} THEN <<>>
        ELSE LET i == Max(dots)
             IN  IF 1 < i /\ i < Len(path.name)
                 THEN SubSeq(path.name, i, Len(path.name)) ELSE <<>>

\* PurePath.with_suffix
with_suffix(path, new_suffix) ==
    Path(path.dir,
         SubSeq(path.name, 1, Len(path.name) - Len(suffix(path))) \o new_suffix)

IsPrefix(a, b) == Len(a) <= Len(b) /\ SubSeq(b, 1, Len(a)) = a

\* PurePath.relative_to, None for the ValueError
relative_to(path, base) ==
    IF IsPrefix(base, path.dir)
    THEN Path(SubSeq(path.dir, Len(base) + 1, Len(path.dir)), path.name)
    ELSE None

\* a dict is the sequence of its items, in insertion order
Has(dict, key) == \E i \in 1..Len(dict) : dict[i][1] = key
Get(dict, key) == dict[CHOOSE i \in 1..Len(dict) : dict[i][1] = key][2]

\* json.dump: the tokens of the text of a dict whose values are strings,
\* numbers or such dicts
Token(t, v) == [t |-> t, v |-> v]
RECURSIVE json_dump(_)
json_dump(dict) ==
    LET RECURSIVE members(_)
        members(items) ==
            IF items = <<>> THEN <<>>
            ELSE LET key == Head(items)[1]
                     value == Head(items)[2]
                 IN  <<Token("key", key)>>
                     \o (IF key = "statistics" THEN json_dump(value)
                         ELSE <<Token("value", value)>>)
                     \o members(Tail(items))
    IN  <<Token("{", 0)>> \o members(dict) \o <<Token("}", 0)>>

\* json.load: [value, next] of the object whose members start at token i
RECURSIVE parse_members(_, _, _)
parse_members(tokens, i, items) ==
    IF tokens[i].t = "}" THEN [value |-> items, next |-> i + 1]
    ELSE IF tokens[i + 1].t = "{"
         THEN LET inner == parse_members(tokens, i + 2, <<>>)
              IN  parse_members(tokens, inner.next,
                                Append(items, <<tokens[i].v, inner.value>>))
    ELSE parse_members(tokens, i + 2, Append(items, <<tokens[i].v, tokens[i + 1].v>>))

json_load(tokens) == parse_members(tokens, 2, <<>>).value

\* file contents
Figure == [kind |-> "svg"]
Table == [kind |-> "csv"]
Json(tokens) == [kind |-> "json", text |-> tokens]
Html(body) == [kind |-> "html", body |-> body]

write(fsys, path, content) ==
    [q \in DOMAIN fsys \cup {path} |-> IF q = path THEN content ELSE fsys[q]]

\* the metadata mappings callers build: plot_relation and save_edge_cases
\* give title and description, plot_distribution statistics as well
Statistics == <<<<"Number of Samples", 1>>, <<"Mean", 2>>>>
Shapes == {"title", "title+description", "title+statistics",
           "title+description+statistics", "description"}
Metadata(shape, title) ==
    (IF shape = "description" THEN <<>> ELSE <<<<"title", title>>>>)
    \o (IF shape \in {"title+description", "title+description+statistics", "description"}
        THEN <<<<"description", <<"d">>>>>> ELSE <<>>)
    \o (IF shape \in {"title+statistics", "title+description+statistics"}
        THEN <<<<"statistics", Statistics>>>> ELSE <<>>)

ArtifactsDir == <<"out", "artifacts">>

\* the files after save_fig_artifact (extension Svg, content Figure) or
\* save_df_artifact (extension Csv, content Table)
save_artifact(fsys, dir, extension, content, metadata) ==
    LET slug == parameterize(Get(metadata, "title"))
    IN  write(write(fsys, Path(dir, slug \o extension), content),
              Path(dir, slug \o MetaJson), Json(json_dump(metadata)))

\* nothing saved yet
SaveStart ==
    /\ fs = <<>> /\ saved = None /\ args = None
    /\ opened = <<>> /\ exception = "none" /\ rpc = "ready"

\* save_fig_artifact / save_df_artifact; metadata["title"] raises KeyError
\* before anything is written
Save(extension, content) ==
    /\ rpc = "ready"
    /\ \E title \in Titles, shape \in Shapes :
          LET metadata == Metadata(shape, title)
          IN  IF ~Has(metadata, "title")
              THEN /\ exception' = "KeyError"
                   /\ rpc' = "save_raised"
                   /\ UNCHANGED <<fs, saved>>
              ELSE /\ fs' = save_artifact(fs, ArtifactsDir, extension, content, metadata)
                   /\ saved' = [artifact |-> Path(ArtifactsDir,
                                                  parameterize(title) \o extension),
                                metadata |-> metadata]
                   /\ rpc' = "saved"
                   /\ UNCHANGED exception
    /\ UNCHANGED <<args, opened>>
    /\ UNCHANGED <<loadVars, execVars, blockVars, poolVars, callVars, parseVars>>

SaveFigArtifact == Save(Svg, Figure)
SaveDfArtifact == Save(Csv, Table)

\* elements of the report's body
H1(string) == [tag |-> "h1", text |-> string]
H2(string) == [tag |-> "h2", text |-> string]
P(string) == [tag |-> "p", text |-> string]
PB(string) == [tag |-> "p", b |-> string]
Ul(dict) == [tag |-> "ul", li |-> dict]
Img(src) == [tag |-> "img", src |-> src]

ReportHtml == <<"r", ".", "h", "t", "m", "l">>

\* a section that embeds the artifact whatever its suffix
section_img_always(sc, artifact_path, metadata, output) ==
    <<H2(Get(metadata, "title"))>>
    \o (IF Has(metadata, "description") THEN <<P(Get(metadata, "description"))>> ELSE <<>>)
    \o (IF Has(metadata, "statistics")
        THEN <<PB("Statistics:"), Ul(Get(metadata, "statistics"))>> ELSE <<>>)
    \o <<Img(artifact_path)>>

\* the elements one artifact adds, given its parsed sidecar
section(sc, artifact_path, metadata, output) ==
    <<H2(Get(metadata, "title"))>>
    \o (IF Has(metadata, "description") THEN <<P(Get(metadata, "description"))>> ELSE <<>>)
    \o (IF Has(metadata, "statistics")
        THEN <<PB("Statistics:"), Ul(Get(metadata, "statistics"))>> ELSE <<>>)
    \o (IF suffix(artifact_path) = Svg
        THEN IF sc = "benchmark"
             THEN <<Img(relative_to(artifact_path, output.dir))>>
             ELSE <<Img(artifact_path)>>
        ELSE <<>>)

\* add_artifacts: the elements added, the sidecar paths opened, and the
\* exception that ended the loop
RECURSIVE add_artifacts(_, _, _, _)
add_artifacts(sc, artifacts, output, fsys) ==
    IF artifacts = <<>> THEN [elements |-> <<>>, opened |-> <<>>, exception |-> "none"]
    ELSE LET artifact_path == Head(artifacts)
             metadata_path == with_suffix(artifact_path, MetaJson)
             stop(e) == [elements |-> <<>>, opened |-> <<metadata_path>>, exception |-> e]
         IN  IF metadata_path \notin DOMAIN fsys THEN stop("FileNotFoundError")
             ELSE IF fsys[metadata_path].kind # "json" THEN stop("JSONDecodeError")
             ELSE LET metadata == json_load(fsys[metadata_path].text)
                  IN  IF ~Has(metadata, "title") THEN stop("KeyError")
                      ELSE IF /\ sc = "benchmark"
                              /\ suffix(artifact_path) = Svg
                              /\ relative_to(artifact_path, output.dir) = None
                           THEN stop("ValueError")
                      ELSE LET rest == add_artifacts(sc, Tail(artifacts), output, fsys)
                           IN  [elements |-> section(sc, artifact_path, metadata, output)
                                             \o rest.elements,
                                opened |-> <<metadata_path>> \o rest.opened,
                                exception |-> rest.exception]

\* what comes before the artifacts: benchmark/generate_report.py lists the
\* info file, plots/generate_report.py has a fixed heading
header(sc, info) ==
    IF sc = "benchmark"
    THEN <<H1(IF Has(info, "Title") THEN Get(info, "Title") ELSE "Benchmark"), Ul(info)>>
    ELSE <<H1("Report")>>

\* the artifacts that can be named on the command line: the ones in the
\* artifacts directory, and one that does not exist
Missing == Path(ArtifactsDir, <<"x">> \o Svg)
Candidates == {q \in DOMAIN fs : fs[q].kind \in {"svg", "csv"}} \cup {Missing}
Outputs == {Path(<<"out">>, ReportHtml), Path(<<"elsewhere">>, ReportHtml)}
Infos == {<<>>, <<<<"Title", "Run">>>>}

\* one run of a report generator: the document is written once it is
\* complete, an exception leaves no report
GenerateReport(sc, info) ==
    /\ rpc \in {"saved", "stocked"}
    /\ \E n \in 0..MaxArgs, output \in Outputs :
       \E artifacts \in [1..n -> Candidates] :
          LET added == add_artifacts(sc, artifacts, output, fs)
          IN  /\ args' = [script |-> sc, info |-> info,
                          artifacts |-> artifacts, output |-> output]
              /\ opened' = added.opened
              /\ exception' = added.exception
              /\ IF added.exception = "none"
                 THEN /\ fs' = write(fs, output, Html(header(sc, info) \o added.elements))
                      /\ rpc' = "written"
                 ELSE /\ rpc' = "report_raised"
                      /\ UNCHANGED fs
    /\ UNCHANGED saved
    /\ UNCHANGED <<loadVars, execVars, blockVars, poolVars, callVars, parseVars>>

GenerateBenchmarkReport == \E info \in Infos : GenerateReport("benchmark", info)
GeneratePlotsReport == GenerateReport("plots", <<>>)

SaveNext ==
    \/ SaveFigArtifact
    \/ SaveDfArtifact
    \/ GenerateBenchmarkReport
    \/ GeneratePlotsReport

SaveInit == SaveStart /\ LoadIdle /\ ExecIdle /\ BlockIdle /\ PoolIdle /\ CallIdle /\ ParseIdle

SpecArtifact == SaveInit /\ [][SaveNext]_vars

\* an artifacts directory holding two figures and a table, each saved with
\* one of the metadata shapes that have a title
ReportStart ==
    /\ \E s1, s2, s3 \in Shapes \ {"description"} :
          fs = save_artifact(
                 save_artifact(
                   save_artifact(<<>>, ArtifactsDir, Svg, Figure, Metadata(s1, <<"A">>)),
                   ArtifactsDir, Svg, Figure, Metadata(s2, <<"A", " ", "A">>)),
                 ArtifactsDir, Csv, Table, Metadata(s3, <<"A", "A">>))
    /\ saved = None /\ args = None
    /\ opened = <<>> /\ exception = "none" /\ rpc = "stocked"

ReportNext == GenerateBenchmarkReport \/ GeneratePlotsReport

ReportInit == ReportStart /\ LoadIdle /\ ExecIdle /\ BlockIdle /\ PoolIdle /\ CallIdle /\ ParseIdle

SpecReport == ReportInit /\ [][ReportNext]_vars

(***************************************************************************)
(* scripts/cmp-state-dumps.py: every VM state dump is compared with the    *)
(* native dump of the same transaction by a pool of worker processes.      *)
(* A path is the sequence of its components, a dump the sequence of its    *)
(* lines.                                                                  *)
(***************************************************************************)
MaxFiles == 3

POOL_SIZE == 8

\* the directories and file names state_dumps/vm can hold; "logs" is a
\* directory whose name has no block number
BlockDirs == <<"block1", "block1", "block2", "block3">>
TxNames == <<"0xa.json", "0xb.json", "0xa.json", "0xc.json">>

\* re.findall(r"/(0x.*).json", path) and re.findall(r"block(\d+)", path),
\* <<>> when nothing matches
find_tx(path) ==
    IF path[4] = "0xa.json" THEN <<"0xa">>
    ELSE IF path[4] = "0xb.json" THEN <<"0xb">>
    ELSE IF path[4] = "0xc.json" THEN <<"0xc">>
    ELSE <<>>
find_block(path) ==
    IF path[3] = "block1" THEN <<"1">>
    ELSE IF path[3] = "block2" THEN <<"2">>
    ELSE IF path[3] = "block3" THEN <<"3">>
    ELSE <<>>

\* str.replace("vm", "native") on the path
native_path(vm_dump_path) ==
    [k \in 1..Len(vm_dump_path) |->
        IF vm_dump_path[k] = "vm" THEN "native" ELSE vm_dump_path[k]]

\* re.sub(r".*revert_error.*", "", dump, 1): the first line that mentions
\* revert_error is emptied
IsRevertError(dump_line) == dump_line \in {"revert_error: vm", "revert_error: native"}
sub_revert_error(dump) ==
    LET hits == {k \in 1..Len(dump) : IsRevertError(dump[k])}
    IN  IF hits = {} THEN dump
        ELSE [k \in 1..Len(dump) |->
                IF k = CHOOSE h \in hits : \A g \in hits : h <= g THEN "" ELSE dump[k]]

Result(status, block, tx) == [status |-> status, block |-> block, tx |-> tx]
BadPath == [raised |-> "bad path"]

compare(vm_dump_path, dumps) ==
    IF find_tx(vm_dump_path) = <<>> \/ find_block(vm_dump_path) = <<>> THEN BadPath
    ELSE LET block == find_block(vm_dump_path)[1]
             tx == find_tx(vm_dump_path)[1]
             native_dump_path == native_path(vm_dump_path)
         IN  IF native_dump_path \notin DOMAIN dumps \/ vm_dump_path \notin DOMAIN dumps
             THEN Result("MISS", block, tx)
             ELSE IF sub_revert_error(dumps[native_dump_path])
                     = sub_revert_error(dumps[vm_dump_path])
                  THEN Result("MATCH", block, tx)
                  ELSE Result("DIFF", block, tx)

\* stats[status] += 1 over the results, the keys in the order they first
\* come up
RECURSIVE tally(_, _)
tally(rs, stats) ==
    IF rs = <<>> THEN stats
    ELSE LET status == Head(rs).status
         IN  tally(Tail(rs),
                   IF \E k \in 1..Len(stats) : stats[k][1] = status
                   THEN [k \in 1..Len(stats) |->
                           IF stats[k][1] = status THEN <<status, stats[k][2] + 1>>
                           ELSE stats[k]]
                   ELSE Append(stats, <<status, 1>>))

\* what the state_dumps directory holds for the n-th VM dump
\* (the native dump differs in its revert_error line only, differs in the
\* state, or is missing; or the VM dump is not in a block directory)
DumpCases == {"revert_error", "state", "missing", "not_a_block"}
VmDump == <<"storage: 1", "revert_error: vm">>
NativeDump(case) ==
    IF case = "state" THEN <<"storage: 2", "revert_error: vm">>
    ELSE <<"storage: 1", "revert_error: native">>
VmPath(n, case) ==
    <<"state_dumps", "vm", IF case = "not_a_block" THEN "logs" ELSE BlockDirs[n], TxNames[n]>>

RECURSIVE Disk(_)
Disk(cases) ==
    IF cases = <<>> THEN <<>>
    ELSE LET n == Len(cases)
             case == cases[n]
             with_vm == write(Disk(SubSeq(cases, 1, n - 1)), VmPath(n, case), VmDump)
         IN  IF case = "missing" THEN with_vm
             ELSE write(with_vm, native_path(VmPath(n, case)), NativeDump(case))

\* an outcome stored at the first position still empty
set_result_in_arrival_order(rs, k, value) ==
    [rs EXCEPT ![CHOOSE j \in 1..Len(rs) :
                    rs[j] = None /\ \A i \in 1..(j - 1) : rs[i] # None] = value]

\* the pool stores the outcome of task k at position k of the result list
set_result(rs, k, value) == [rs EXCEPT ![k] = value]

Workers == 1..POOL_SIZE

\* main up to pool.map: glob has listed the VM dumps, the pool holds one
\* task per file (chunksize is 1 below 4 * POOL_SIZE files)
PoolStart ==
    /\ \E n \in 0..MaxFiles : \E cases \in [1..n -> DumpCases] :
          /\ disk = Disk(cases)
          /\ files = [k \in 1..n |-> VmPath(k, cases[k])]
    /\ taken = 0
    /\ running = [w \in Workers |-> 0]
    /\ results = [k \in 1..Len(files) |-> None]
    /\ printed = <<>>
    /\ ppc = "map"

\* a waiting worker takes the next task off the queue
Take(w) ==
    /\ ppc = "map"
    /\ running[w] = 0
    /\ taken < Len(files)
    /\ taken' = taken + 1
    /\ running' = [running EXCEPT ![w] = taken + 1]
    /\ UNCHANGED <<disk, files, results, printed, ppc>>
    /\ UNCHANGED <<loadVars, execVars, blockVars, reportVars, callVars, parseVars>>

\* a worker runs compare on its file and hands the outcome back; the pool
\* stores it at the task's position
Finish(w) ==
    /\ ppc = "map"
    /\ running[w] # 0
    /\ results' = set_result(results, running[w], compare(files[running[w]], disk))
    /\ running' = [running EXCEPT ![w] = 0]
    /\ UNCHANGED <<disk, files, taken, printed, ppc>>
    /\ UNCHANGED <<loadVars, execVars, blockVars, reportVars, callVars, parseVars>>

WorkerTakes == \E w \in Workers : Take(w)
WorkerFinishes == \E w \in Workers : Finish(w)

AllDone == \A k \in 1..Len(files) : results[k] # None

\* pool.map returns once every task is done; main tallies and prints
PrintStats ==
    /\ ppc = "map"
    /\ AllDone
    /\ \A k \in 1..Len(files) : results[k] # BadPath
    /\ printed' = tally(results, <<>>)
    /\ ppc' = "printed"
    /\ UNCHANGED <<disk, files, taken, running, results>>
    /\ UNCHANGED <<loadVars, execVars, blockVars, reportVars, callVars, parseVars>>

\* pool.map raises the exception of a task once every task is done
MapRaises ==
    /\ ppc = "map"
    /\ AllDone
    /\ \E k \in 1..Len(files) : results[k] = BadPath
    /\ ppc' = "raised"
    /\ UNCHANGED <<disk, files, taken, running, results, printed>>
    /\ UNCHANGED <<loadVars, execVars, blockVars, reportVars, callVars, parseVars>>

PoolNext == WorkerTakes \/ WorkerFinishes \/ PrintStats \/ MapRaises

PoolInit == PoolStart /\ LoadIdle /\ ExecIdle /\ BlockIdle /\ ReportIdle /\ CallIdle /\ ParseIdle

SpecPool == PoolInit /\ [][PoolNext]_vars

(***************************************************************************)
(* scripts/extract_call.py                                                 *)
(***************************************************************************)
MaxCalls == 3
MaxCounter == 2

\* the call infos of a shape: every node has a call_counter, its "call"
\* object (told apart by its calldata) and the list of its inner calls
RECURSIVE CallInfos(_, _), InnerCalls(_, _, _)
CallInfos(shape, path) ==
    {[call_counter |-> c, call |-> <<<<"calldata", path>>>>, inner_calls |-> inner] :
        c \in 0..MaxCounter, inner \in InnerCalls(shape.inner, path, 1)}
InnerCalls(shapes, path, i) ==
    IF shapes = <<>> THEN {<<>>}
    ELSE {<<h>> \o t : h \in CallInfos(Head(shapes), path \o <<i>>),
                        t \in InnerCalls(Tail(shapes), path, i + 1)}

ExecuteCallInfos ==
    UNION {CallInfos(shape, <<>>) : shape \in UNION {TreeShapes(n) : n \in 1..MaxCalls}}

\* find_call looking into the inner calls before the node itself
RECURSIVE find_call_inner_first(_, _)
find_call_inner_first(call_info, index) ==
    LET RECURSIVE for(_)
        for(inner_calls) ==
            IF inner_calls = <<>> THEN None
            ELSE LET target_call == find_call_inner_first(Head(inner_calls), index)
                 IN  IF target_call # None THEN target_call ELSE for(Tail(inner_calls))
    IN  IF for(call_info.inner_calls) # None THEN for(call_info.inner_calls)
        ELSE IF call_info.call_counter = index THEN call_info
        ELSE None

\* lines 17-25; a call info is a dict with keys, so it is truthy on line 22
RECURSIVE find_call(_, _)
find_call(call_info, index) ==
    LET RECURSIVE for(_)
        for(inner_calls) ==
            IF inner_calls = <<>> THEN None
            ELSE LET target_call == find_call(Head(inner_calls), index)
                 IN  IF target_call # None THEN target_call ELSE for(Tail(inner_calls))
    IN  IF call_info.call_counter = index THEN call_info
        ELSE for(call_info.inner_calls)

\* lines 7-14: the arguments are parsed and the file is loaded
CallStart ==
    /\ execution_info \in [execute_call_info : ExecuteCallInfos \cup {None}]
    /\ index_arg \in 0..(MaxCounter + 1)
    /\ target_call_info = None
    /\ stdout = <<>> /\ stderr = <<>>
    /\ exit_code = Running
    /\ cpc = "find_call"

\* lines 28-29; a transaction without execute call has None there, and
\* subscripting it on line 18 raises TypeError
FindCall ==
    /\ cpc = "find_call"
    /\ IF execution_info.execute_call_info = None
       THEN /\ stderr' = <<"TypeError">>
            /\ exit_code' = 1
            /\ cpc' = "exited"
            /\ UNCHANGED target_call_info
       ELSE /\ target_call_info' = find_call(execution_info.execute_call_info, index_arg)
            /\ cpc' = "found"
            /\ UNCHANGED <<stderr, exit_code>>
    /\ UNCHANGED <<execution_info, index_arg, stdout>>
    /\ UNCHANGED <<loadVars, execVars, blockVars, reportVars, poolVars, parseVars>>

\* lines 30-32
FailedToFind ==
    /\ cpc = "found"
    /\ target_call_info = None
    /\ stderr' = <<"failed to find call">>
    /\ exit_code' = 1
    /\ cpc' = "exited"
    /\ UNCHANGED <<execution_info, index_arg, target_call_info, stdout>>
    /\ UNCHANGED <<loadVars, execVars, blockVars, reportVars, poolVars, parseVars>>

\* lines 34-35, and the end of the script
DumpCall ==
    /\ cpc = "found"
    /\ target_call_info # None
    /\ stdout' = json_dump(target_call_info.call)
    /\ exit_code' = 0
    /\ cpc' = "exited"
    /\ UNCHANGED <<execution_info, index_arg, target_call_info, stderr>>
    /\ UNCHANGED <<loadVars, execVars, blockVars, reportVars, poolVars, parseVars>>

CallNext == FindCall \/ FailedToFind \/ DumpCall

CallInit == CallStart /\ LoadIdle /\ ExecIdle /\ BlockIdle /\ ReportIdle /\ PoolIdle /\ ParseIdle

SpecCall == CallInit /\ [][CallNext]_vars

(***************************************************************************)
(* plotting/parse_execution_time.py                                        *)
(***************************************************************************)
MaxRuns == 2

ExecutionFinished == <<"contract", "execution", "finished">>
CachingBlockRange == <<"caching", "block", "range">>

\* a log record with its message, the stack of its spans, the span it was
\* logged in (class_hash in decimal) and its time
ExecutionEvent(msg, spans, class_hash, time) ==
    [fields |-> [message |-> msg, time |-> time],
     spans |-> spans,
     span |-> [name |-> <<"contract", "execution">>, class_hash |-> class_hash]]

ExecutionSpan == [name |-> <<"contract", "execution">>]
CachingSpan == [name |-> <<"replay", "caching", "block", "range">>]

EvExecuted == ExecutionEvent(<<"contract", "execution", "finished">>, <<ExecutionSpan>>, 10, 3)
EvExecutedNative ==
    ExecutionEvent(<<"native", "contract", "execution", "finished">>, <<ExecutionSpan>>, 255, 7)
EvCaching ==
    ExecutionEvent(<<"contract", "execution", "finished">>, <<ExecutionSpan, CachingSpan>>, 10, 5)
EvCompiled == ExecutionEvent(<<"contract", "compilation", "finished">>, <<ExecutionSpan>>, 10, 9)

ExecutionEvents == {EvExecuted, EvExecutedNative, EvCaching, EvCompiled}

\* hex(n) of a non-negative int: "0x" and the digits, most significant first
RECURSIVE hex_digits(_)
hex_digits(n) ==
    LET digit == <<"0", "1", "2", "3", "4", "5", "6", "7", "8", "9",
                   "a", "b", "c", "d", "e", "f">>[(n % 16) + 1]
    IN  IF n < 16 THEN <<digit>> ELSE Append(hex_digits(n \div 16), digit)
hex(n) == <<"0", "x">> \o hex_digits(n)

\* float(x) of a whole number
float(x) == [float |-> x]

\* lines 11-26 without the test on the caching span
execution_row_with_caching(event) ==
    IF ~StrIn(ExecutionFinished, event.fields.message) THEN None
    ELSE <<<<"class hash", hex(event.span.class_hash)>>,
           <<"time", float(event.fields.time)>>>>

\* lines 11-26: canonicalize of parse_execution_time.py; the row is the
\* dict it returns
execution_row(event) ==
    IF find_span(event, CachingBlockRange) # None THEN None
    ELSE IF ~StrIn(ExecutionFinished, event.fields.message) THEN None
    ELSE <<<<"class hash", hex(event.span.class_hash)>>,
           <<"time", float(event.fields.time)>>>>

\* DataFrame.to_json(orient='records', lines=True): one JSON object per row
to_json(rows) == [i \in 1..Len(rows) |-> json_dump(rows[i])]

StaleLine == <<Token("{", 0), Token("}", 0)>>

\* the script is started on an input; the output file may hold the lines
\* of an earlier run on another input
ParseStart ==
    /\ log \in UNION {[1..n -> ExecutionEvents] : n \in 0..MaxRecords}
    /\ output_file \in {<<>>, <<StaleLine>>}
    /\ parse_chunksize \in 1..MaxChunk
    /\ offset = 0
    /\ runs = 0
    /\ epc = "open"

\* lines 35-37: the output file is opened for writing and closed
Truncate ==
    /\ epc = "open"
    /\ output_file' = <<>>
    /\ offset' = 0
    /\ epc' = "chunks"
    /\ UNCHANGED <<log, parse_chunksize, runs>>
    /\ UNCHANGED <<loadVars, execVars, blockVars, reportVars, poolVars, callVars>>

\* lines 40-43: one iteration of `for chunk in chunks`
AppendChunk ==
    /\ epc = "chunks"
    /\ offset < Len(log)
    /\ LET chunk == SubSeq(log, offset + 1, Min(offset + parse_chunksize, Len(log)))
           kept == dropna([i \in 1..Len(chunk) |-> execution_row(chunk[i])])
       IN  /\ output_file' = IF Len(apply_pd_Series(kept).rows) > 0
                             THEN output_file \o to_json(apply_pd_Series(kept).rows)
                             ELSE output_file
           /\ offset' = offset + Len(chunk)
    /\ UNCHANGED <<log, parse_chunksize, runs, epc>>
    /\ UNCHANGED <<loadVars, execVars, blockVars, reportVars, poolVars, callVars>>

\* the iterator is exhausted and the script ends
ParseExit ==
    /\ epc = "chunks"
    /\ offset = Len(log)
    /\ runs' = runs + 1
    /\ epc' = "exited"
    /\ UNCHANGED <<log, output_file, parse_chunksize, offset>>
    /\ UNCHANGED <<loadVars, execVars, blockVars, reportVars, poolVars, callVars>>

\* the script is run again on the same input
RunAgain ==
    /\ epc = "exited"
    /\ runs < MaxRuns
    /\ epc' = "open"
    /\ UNCHANGED <<log, output_file, parse_chunksize, offset, runs>>
    /\ UNCHANGED <<loadVars, execVars, blockVars, reportVars, poolVars, callVars>>

ParseNext == Truncate \/ AppendChunk \/ ParseExit \/ RunAgain

ParseInit == ParseStart /\ LoadIdle /\ ExecIdle /\ BlockIdle /\ ReportIdle /\ PoolIdle
             /\ CallIdle

SpecParse == ParseInit /\ [][ParseNext]_vars

(***************************************************************************)
(* Properties of the loaders                                               *)
(***************************************************************************)
\* the rows a record-by-record pass over the whole file keeps
RECURSIVE KeptRows(_, _)
KeptRows(fn, recs) ==
    IF recs = <<>> THEN <<>>
    ELSE (IF fn[Head(recs)] # None THEN <<fn[Head(recs)]>> ELSE <<>>)
         \o KeptRows(fn, Tail(recs))

Matching(fn, recs) == {i \in 1..Len(recs) : fn[recs[i]] # None}

\* C1: when load_jsonl returns, its table has exactly one row per record for
\* which the transform returned a non-None value; the rows are the
\* transform's results, in input order.
C1_LoadJsonlRows ==
    (loader = "load_jsonl" /\ pc = "returned") =>
        /\ Len(result.rows) = Cardinality(Matching(f, file))
        /\ result.rows = KeptRows(f, file)

\* C1 witness: a load over several chunks that kept two records with
\* different rows and skipped one.
C1_Witness ==
    /\ loader = "load_jsonl" /\ pc = "returned"
    /\ chunksize < Len(file)
    /\ Cardinality(Matching(f, file)) = 2
    /\ Len(file) = 3
    /\ Len(result.rows) = 2 /\ result.rows[1] # result.rows[2]

\* the table of the unchunked scripts: dataset.apply(f).dropna().apply(pd.Series)
WholeFileTable(fn, recs) == apply_pd_Series(dropna(apply(fn, recs)))

\* C2: whatever the chunk size, the table a chunked loader returns has the
\* rows, in the order, of the transform applied to the whole file at once.
C2_ChunkingInvisible ==
    (pc = "returned") => result.rows = WholeFileTable(f, file).rows

\* first record of the file on which the transform raises (0 when none does)
FirstRaiseOrZero(fn, recs) ==
    IF RaisingAt(fn, recs) = {} THEN 0 ELSE FirstRaise(fn, recs)

InvalidExecutor(event) ==
    /\ StrIn(CompilationFinished, event.fields.message)
    /\ find_span(event, ContractCompilation) # None
    /\ ~StrIn(<<"vm">>, event.fields.message)
    /\ ~StrIn(<<"native">>, event.fields.message)

\* C10: a load aborts on the first record whose transform raises: no later
\* record is processed, no table is returned and the exit status is not 0;
\* with the compilation canonicalize the raising record is the first
\* "compilation finished" event with a compilation span that names neither
\* vm nor native, and a load over a file holding such an event never returns.
C10_AbortOnFirstRaise ==
    /\ (pc = "raised") =>
           /\ applied = FirstRaiseOrZero(f, file)
           /\ applied > 0
           /\ result = None
           /\ exit_status # Running /\ exit_status # 0
           /\ (f = CanonicalizeFn) =>
                  /\ InvalidExecutor(file[applied])
                  /\ \A i \in 1..(applied - 1) : ~InvalidExecutor(file[i])
    /\ (pc = "returned" /\ f = CanonicalizeFn) =>
           \A i \in 1..Len(file) : ~InvalidExecutor(file[i])

\* C10 witness: the raise happens after a first chunk produced rows and
\* before the last record of the file.
C10_Witness ==
    /\ pc = "raised" /\ f = CanonicalizeFn
    /\ Len(dataset.rows) > 0
    /\ applied < Len(file)


(***************************************************************************)
(* Properties of plot_execution_time.py                                    *)
(***************************************************************************)
RawHashes(raw_json) ==
    {raw_json.transactions[i].hash : i \in 1..Len(raw_json.transactions)}

\* mean time_ns of the executions of a transaction in a dump
RawMeanTime(raw_json, tx_hash) ==
    LET I == {i \in 1..Len(raw_json.transactions) :
                raw_json.transactions[i].hash = tx_hash}
    IN  Rat(SumSeq([k \in 1..Cardinality(I) |->
                      raw_json.transactions[SortedSeq(I)[k]].time_ns]),
            Cardinality(I))

\* the script is past the merge of lines 275-290
Merged ==
    xpc \in {"mkdir", "plot_pure_transactions", "plot_time_by_gas", "plot_time_by_class",
             "plot_call_throughput", "plot_block_speedup", "plot_tx_speedup", "report",
             "done"}

\* C3: the merged transaction table has exactly one row per transaction hash
\* present in both dumps, whose speedup is the VM time divided by the native
\* time; process_speedup returns vm_time_ns / native_time_ns for every pair
\* of a native and a VM execution of the same transaction.
C3_SpeedupIsVmOverNative ==
    /\ Merged =>
          /\ \A h \in RawHashes(native_data) \cap RawHashes(vm_data) :
                Cardinality({k \in 1..Len(df_txs) : df_txs[k].tx_hash = h}) = 1
          /\ \A k \in 1..Len(df_txs) :
                /\ df_txs[k].tx_hash \in RawHashes(native_data) \cap RawHashes(vm_data)
                /\ df_txs[k].speedup.num * RawMeanTime(native_data, df_txs[k].tx_hash).num
                     * RawMeanTime(vm_data, df_txs[k].tx_hash).den
                   = df_txs[k].speedup.den * RawMeanTime(vm_data, df_txs[k].tx_hash).num
                     * RawMeanTime(native_data, df_txs[k].tx_hash).den
    /\ (xpc = "corr_done") =>
          LET n == native_data.transactions
              v == vm_data.transactions
              pairs == {p \in (1..Len(n)) \X (1..Len(v)) : n[p[1]].hash = v[p[2]].hash}
          IN  /\ Len(df_speedup) = Cardinality(pairs)
              /\ \A p \in pairs : \E k \in 1..Len(df_speedup) :
                    /\ df_speedup[k].tx_hash = n[p[1]].hash
                    /\ df_speedup[k].speedup.num * n[p[1]].time_ns
                       = df_speedup[k].speedup.den * v[p[2]].time_ns
              /\ \A k \in 1..Len(df_speedup) : \E p \in pairs :
                    /\ df_speedup[k].tx_hash = n[p[1]].hash
                    /\ df_speedup[k].speedup.num * n[p[1]].time_ns
                       = df_speedup[k].speedup.den * v[p[2]].time_ns

\* C3 witness: a merged table of two transactions, one of them executed
\* twice in both dumps, with a speedup of 3 (not 1/3).
C3_Witness ==
    /\ Merged
    /\ Len(df_txs) = 2
    /\ Len(native_data.transactions) = 3 /\ Len(vm_data.transactions) = 3
    /\ \E k \in 1..Len(df_txs) : df_txs[k].speedup = [num |-> 3, den |-> 1]

\* the transaction execution i of a dump, without its measured times: the
\* transaction record and the calls from its first_call up to the next one's
Execution(raw_json, i) ==
    LET txs == raw_json.transactions
        last == IF i = Len(txs) THEN Len(raw_json.calls) ELSE txs[i + 1].first_call
        calls == SubSeq(raw_json.calls, txs[i].first_call + 1, last)
    IN  [hash |-> txs[i].hash,
         block_number |-> txs[i].block_number,
         gas_consumed |-> txs[i].gas_consumed,
         steps |-> txs[i].steps,
         calls |-> [k \in 1..Len(calls) |->
                      [class_hash |-> calls[k].class_hash,
                       selector |-> calls[k].selector,
                       resource |-> calls[k].resource,
                       gas_consumed |-> calls[k].gas_consumed,
                       steps |-> calls[k].steps]]]

\* two dumps hold the same transaction executions, in any order
SameTransactions(a, b) ==
    /\ Len(a.transactions) = Len(b.transactions)
    /\ \A i \in 1..Len(a.transactions) :
          Cardinality({j \in 1..Len(a.transactions) : Execution(a, j) = Execution(a, i)})
          = Cardinality({j \in 1..Len(b.transactions) : Execution(b, j) = Execution(a, i)})

SameOrder(a, b) ==
    /\ Len(a.transactions) = Len(b.transactions)
    /\ \A i \in 1..Len(a.transactions) : Execution(a, i) = Execution(b, i)

\* the tables load_data gives for the two dumps agree row by row on the keys
TablesAgree ==
    LET n == load_data(native_data)
        v == load_data(vm_data)
    IN  /\ Len(n.df_txs) = Len(v.df_txs)
        /\ \A i \in 1..Len(n.df_txs) :
              /\ n.df_txs[i].tx_hash = v.df_txs[i].tx_hash
              /\ n.df_txs[i].block_number = v.df_txs[i].block_number
              /\ n.df_txs[i].gas_consumed = v.df_txs[i].gas_consumed
        /\ Len(n.df_calls) = Len(v.df_calls)
        /\ \A i \in 1..Len(n.df_calls) :
              /\ n.df_calls[i].tx_hash = v.df_calls[i].tx_hash
              /\ n.df_calls[i].call_index = v.df_calls[i].call_index
              /\ n.df_calls[i].class_hash = v.df_calls[i].class_hash
              /\ n.df_calls[i].selector = v.df_calls[i].selector
              /\ n.df_calls[i].resource = v.df_calls[i].resource
              /\ n.df_calls[i].gas_consumed = v.df_calls[i].gas_consumed

BothLoaded ==
    /\ xpc \notin {"idle", "load_native", "load_vm", "corr_done", "corr_aborted"}
    /\ load_data(native_data).error = NoError
    /\ load_data(vm_data).error = NoError

\* the script stops at the checks of lines 262-272 with nothing merged and
\* nothing created or written
AbortsBeforeOutput ==
    /\ xpc \in {"assert_aligned", "aborted"}
    /\ (xpc = "aborted") =>
          /\ error.type \in {"AssertionError", "ValueError"}
          /\ error.line \in 262..272
    /\ df_txs = <<>> /\ df_calls = <<>>
    /\ ~output_dir /\ written = {}

\* C4: whenever the native and VM tables do not agree on their keys the
\* script aborts before merging, creating the output directory or writing a
\* file; and the check passes for two dumps that hold the same transactions
\* in a different file order.
C4_AlignmentGate ==
    /\ (BothLoaded /\ ~TablesAgree) => AbortsBeforeOutput
    /\ (BothLoaded /\ SameTransactions(native_data, vm_data)) => xpc # "aborted"

\* C5: plot_block_speedup yields exactly one row per distinct block_number
\* of the merged transaction table, holding the sums of time_ns_native,
\* time_ns_vm and gas_consumed over the block's transactions, and as speedup
\* the summed VM time divided by the summed native time.
C5_BlockSpeedup ==
    (xpc \in {"plot_tx_speedup", "report", "done"}) =>
        LET blocks == {df_txs[i].block_number : i \in 1..Len(df_txs)}
            Of(b) == {i \in 1..Len(df_txs) : df_txs[i].block_number = b}
            Total(b, c) == RatSum([k \in 1..Cardinality(Of(b)) |->
                                      df_txs[SortedSeq(Of(b))[k]][c]])
        IN  /\ Len(df_blocks) = Cardinality(blocks)
            /\ \A b \in blocks :
                  \E k \in 1..Len(df_blocks) :
                     /\ df_blocks[k].block_number = b
                     /\ df_blocks[k].time_ns_native = Total(b, "time_ns_native")
                     /\ df_blocks[k].time_ns_vm = Total(b, "time_ns_vm")
                     /\ df_blocks[k].gas_consumed =
                           SumSeq([j \in 1..Cardinality(Of(b)) |->
                                      df_txs[SortedSeq(Of(b))[j]].gas_consumed])
                     /\ df_blocks[k].speedup.num * Total(b, "time_ns_native").num
                          * Total(b, "time_ns_vm").den
                        = df_blocks[k].speedup.den * Total(b, "time_ns_vm").num
                          * Total(b, "time_ns_native").den

\* C5 witness: two blocks, one of them with two transactions whose speedups
\* differ, so that the ratio of the sums is not the mean of the speedups.
C5_Witness ==
    /\ xpc = "done"
    /\ Len(df_blocks) = 2
    /\ Len(df_txs) = 3
    /\ df_txs[1].block_number = df_txs[2].block_number
    /\ df_txs[1].speedup # df_txs[2].speedup
    /\ df_blocks[1].speedup # RatDiv(RatAdd(df_txs[1].speedup, df_txs[2].speedup), RatInt(2))

(***************************************************************************)
(* Properties of the block-composition helpers                             *)
(***************************************************************************)
\* the percentage helpers: count_transfers_ptg / count_swaps_ptg of the two
\* plotting copies, count_transfers / count_swaps of scripts/block_composition.py
PercentageHelpers(sc) ==
    IF sc = "block_composition" THEN {"count_transfers", "count_swaps"}
    ELSE {"count_transfers_ptg", "count_swaps_ptg"}

\* C6: every percentage helper returns 0, raising nothing, on an empty
\* transaction list; the plot_transfers_swaps copy also returns 0 when every
\* entry of the list is None.
C6_PercentageOfEmpty ==
    (ret.helper \in PercentageHelpers(script)) =>
        /\ (entrypoints = <<>>) => ret.outcome = Returned(RatInt(0))
        /\ (script = "plot_transfers_swaps"
            /\ \A i \in 1..Len(entrypoints) : entrypoints[i] = None)
           => ret.outcome = Returned(RatInt(0))

\* C6 witness: count_swaps_ptg of the plot_transfers_swaps copy called on a
\* non-empty list of None entries.
C6_Witness ==
    /\ script = "plot_transfers_swaps"
    /\ ret.helper = "count_swaps_ptg"
    /\ Len(entrypoints) = 2
    /\ \A i \in 1..Len(entrypoints) : entrypoints[i] = None
    /\ ret.outcome = Returned(RatInt(0))

(***************************************************************************)
(* Properties of the artifacts and the reports                             *)
(***************************************************************************)
\* the report generator has run on exactly the artifact last saved
ReportedOnSaved ==
    /\ rpc \in {"written", "report_raised"}
    /\ saved # None
    /\ args.artifacts = <<saved.artifact>>

\* C7: an artifact saved with metadata M has, in its directory, a sidecar
\* named by the same slug with extension .meta.json, whose JSON content is M;
\* that sidecar is the artifact path with its suffix replaced by .meta.json,
\* the file generate_report opens for the artifact.
C7_SidecarBesideArtifact ==
    (saved # None) =>
        \E slug \in Titles \cup {parameterize(t) : t \in Titles} :
            LET sidecar == Path(saved.artifact.dir, slug \o MetaJson)
            IN  /\ saved.artifact.name \in {slug \o Svg, slug \o Csv}
                /\ sidecar \in DOMAIN fs
                /\ fs[sidecar].kind = "json"
                /\ json_load(fs[sidecar].text) = saved.metadata
                /\ with_suffix(saved.artifact, MetaJson) = sidecar
                /\ ReportedOnSaved => opened = <<sidecar>>

\* the positions of the section headings in a report's body
Headings(body) == SortedSeq({k \in 1..Len(body) : body[k].tag = "h2"})

\* the elements of the i-th section: from its heading up to the next one
Section(body, i) ==
    LET h == Headings(body)
    IN  SubSeq(body, h[i], IF i < Len(h) THEN h[i + 1] - 1 ELSE Len(body))

Count(elements, Test(_)) == Cardinality({k \in 1..Len(elements) : Test(elements[k])})

\* C8: a written report has one section per artifact argument, in command
\* line order; section i is headed by the title of the i-th artifact's
\* sidecar, has one description paragraph iff the sidecar has a description,
\* one statistics list iff it has statistics, and one image iff the
\* artifact's suffix is .svg.
C8_OneSectionPerArtifact ==
    (rpc = "written") =>
        LET body == fs[args.output].body
        IN  /\ Len(Headings(body)) = Len(args.artifacts)
            /\ \A i \in 1..Len(args.artifacts) :
                  LET artifact == args.artifacts[i]
                      sidecar == json_load(fs[with_suffix(artifact, MetaJson)].text)
                      sec == Section(body, i)
                      paragraphs == Count(sec, LAMBDA e : e.tag = "p" /\ "text" \in DOMAIN e)
                      lists == Count(sec, LAMBDA e : e.tag = "ul")
                      images == Count(sec, LAMBDA e : e.tag = "img")
                  IN  /\ sec[1] = H2(Get(sidecar, "title"))
                      /\ paragraphs = (IF Has(sidecar, "description") THEN 1 ELSE 0)
                      /\ Has(sidecar, "description")
                            => \E k \in 1..Len(sec) : sec[k] = P(Get(sidecar, "description"))
                      /\ lists = (IF Has(sidecar, "statistics") THEN 1 ELSE 0)
                      /\ Has(sidecar, "statistics")
                            => \E k \in 1..Len(sec) : sec[k] = Ul(Get(sidecar, "statistics"))
                      /\ images = (IF suffix(artifact) = Svg THEN 1 ELSE 0)

\* C8 witness: a report written for a table and a figure, in that order,
\* whose sidecars differ in having a description.
C8_Witness ==
    /\ rpc = "written"
    /\ Len(args.artifacts) = 2
    /\ suffix(args.artifacts[1]) = Csv
    /\ suffix(args.artifacts[2]) = Svg
    /\ LET m1 == json_load(fs[with_suffix(args.artifacts[1], MetaJson)].text)
           m2 == json_load(fs[with_suffix(args.artifacts[2], MetaJson)].text)
       IN  /\ Has(m1, "description") /\ ~Has(m1, "statistics")
           /\ ~Has(m2, "description") /\ Has(m2, "statistics")

(***************************************************************************)
(* Properties of cmp-state-dumps                                           *)
(***************************************************************************)
\* comparing the files one by one, in the order glob listed them
Sequential == [k \in 1..Len(files) |-> compare(files[k], disk)]

Statuses == {"MATCH", "DIFF", "MISS"}

\* the count main printed for a status, 0 when it printed no such line
PrintedCount(status) ==
    IF \E k \in 1..Len(printed) : printed[k][1] = status
    THEN printed[CHOOSE k \in 1..Len(printed) : printed[k][1] = status][2]
    ELSE 0

\* C9: whatever the order in which the workers took and finished the tasks,
\* each file has exactly the result of comparing it in sequence, the printed
\* count of each status is the number of files with that result, only
\* MATCH, DIFF and MISS are printed, each once, and the counts add up to the
\* number of VM dumps found.
C9_CountsIndependentOfSchedule ==
    /\ \A k \in 1..Len(files) : results[k] \in {None, Sequential[k]}
    /\ (ppc = "printed") =>
          /\ results = Sequential
          /\ \A k \in 1..Len(printed) : printed[k][1] \in Statuses
          /\ \A j, k \in 1..Len(printed) : printed[j][1] = printed[k][1] => j = k
          /\ \A status \in Statuses :
                PrintedCount(status)
                = Cardinality({k \in 1..Len(files) : Sequential[k].status = status})
          /\ PrintedCount("MATCH") + PrintedCount("DIFF") + PrintedCount("MISS")
             = Len(files)

\* C9 witness: counts printed for three files compared by the pool, one
\* MATCH, one DIFF and one MISS.
C9_Witness ==
    /\ ppc = "printed"
    /\ Len(files) = 3
    /\ PrintedCount("MATCH") = 1 /\ PrintedCount("DIFF") = 1 /\ PrintedCount("MISS") = 1

(***************************************************************************)
(* Properties of load_data                                                 *)
(***************************************************************************)
\* the positions of the executions of a transaction in a dump
Laps(raw_json, tx_hash) ==
    {i \in 1..Len(raw_json.transactions) : raw_json.transactions[i].hash = tx_hash}

\* two executions of one transaction differ in block_number or in
\* gas_consumed + steps * 100
LapsDiffer(raw_json) ==
    \E i, j \in 1..Len(raw_json.transactions) :
        LET a == raw_json.transactions[i]
            b == raw_json.transactions[j]
        IN  /\ a.hash = b.hash
            /\ \/ a.block_number # b.block_number
               \/ a.gas_consumed + a.steps * 100 # b.gas_consumed + b.steps * 100

\* the transaction table has one row per hash of the dump, holding the mean
\* time of its executions
OneRowPerHash(raw_json, txs) ==
    /\ Len(txs) = Cardinality(RawHashes(raw_json))
    /\ \A h \in RawHashes(raw_json) :
          \E k \in 1..Len(txs) :
              /\ txs[k].tx_hash = h
              /\ \A m \in 1..Len(txs) : txs[m].tx_hash = h => m = k
              /\ txs[k].time_ns.den * SumSeq([n \in 1..Cardinality(Laps(raw_json, h)) |->
                     raw_json.transactions[SortedSeq(Laps(raw_json, h))[n]].time_ns])
                 = txs[k].time_ns.num * Cardinality(Laps(raw_json, h))
              /\ \A i \in Laps(raw_json, h) :
                    /\ txs[k].block_number = raw_json.transactions[i].block_number
                    /\ txs[k].gas_consumed = raw_json.transactions[i].gas_consumed
                                             + raw_json.transactions[i].steps * 100

\* load_data has been called on the native dump / on the VM dump
NativeLoadCalled == xpc \notin {"idle", "load_native", "corr_done", "corr_aborted"}
VmLoadCalled == NativeLoadCalled /\ xpc # "load_vm" /\ df_txs_native # <<>>

\* the script ended in one of the assertions of lines 150-151
LapAssertion ==
    xpc = "aborted" /\ error.type = "AssertionError" /\ error.line \in {150, 151}

\* C11: a table load_data returns has exactly one row per distinct tx_hash
\* of the dump, with the arithmetic mean of the time_ns of its executions;
\* the load ends in an assertion failure when two executions of one tx_hash
\* differ in block_number or in gas_consumed + steps * 100.
C11_OneRowPerTransaction ==
    /\ (df_txs_native # <<>>) => OneRowPerHash(native_data, df_txs_native)
    /\ (df_txs_vm # <<>>) => OneRowPerHash(vm_data, df_txs_vm)
    /\ (NativeLoadCalled /\ LapsDiffer(native_data))
          => (LapAssertion /\ df_txs_native = <<>>)
    /\ (VmLoadCalled /\ LapsDiffer(vm_data)) => (LapAssertion /\ df_txs_vm = <<>>)

\* C11 witness: the VM dump holds three executions, two of them of the same
\* transaction with different times, and its table has two rows.
C11_Witness ==
    /\ Len(vm_data.transactions) = 3
    /\ Len(df_txs_vm) = 2
    /\ \E i, j \in 1..3 :
          /\ vm_data.transactions[i].hash = vm_data.transactions[j].hash
          /\ vm_data.transactions[i].time_ns # vm_data.transactions[j].time_ns

\* the VM load ended in the assertion on block_number of two laps
C11_AbortReached ==
    /\ LapAssertion /\ error.line = 150
    /\ df_txs_native # <<>> /\ LapsDiffer(vm_data)

\* the executions whose range of calls, from their first_call up to the
\* first_call of the next execution, holds the 0-based position p
Owners(raw_json, p) ==
    LET txs == raw_json.transactions
    IN  {i \in 1..Len(txs) :
            /\ txs[i].first_call <= p
            /\ p < (IF i = Len(txs) THEN Len(raw_json.calls) ELSE txs[i + 1].first_call)}

\* every call of the dump has one owner, and the merge gives it the hash of
\* that execution
AttributedToOwner(raw_json) ==
    LET attributed == merge_asof(raw_json.calls, txs_add_steps(raw_json.transactions))
    IN  \A p \in 0..(Len(raw_json.calls) - 1) :
            /\ Cardinality(Owners(raw_json, p)) = 1
            /\ \A i \in Owners(raw_json, p) :
                  attributed[p + 1].tx_hash = raw_json.transactions[i].hash

\* the hashes of the call table are those of the executions that made a call
CallHashes(raw_json, calls) ==
    {calls[k].tx_hash : k \in 1..Len(calls)}
    = {raw_json.transactions[i].hash :
          i \in UNION {Owners(raw_json, p) : p \in 0..(Len(raw_json.calls) - 1)}}

\* C12: load_data attributes the call at position i to the execution with
\* the greatest first_call <= i, the last of them when several executions
\* share that first_call, so that an execution that made no call gets none
\* and every call gets exactly one transaction.
C12_CallsAttributedBackward ==
    /\ (df_txs_native # <<>>)
          => (AttributedToOwner(native_data) /\ CallHashes(native_data, df_calls_native))
    /\ (df_txs_vm # <<>>)
          => (AttributedToOwner(vm_data) /\ CallHashes(vm_data, df_calls_vm))

\* C12 witness: a loaded dump whose first execution made no call and shares
\* its first_call with the second one, which made some.
C12_Witness ==
    /\ df_txs_native # <<>>
    /\ Len(native_data.transactions) >= 2
    /\ native_data.transactions[1].first_call = native_data.transactions[2].first_call
    /\ native_data.transactions[1].hash # native_data.transactions[2].hash
    /\ Owners(native_data, 0) = {2}

\* the number of calls the execution at position i of a dump made
CallsOf(raw_json, i) ==
    LET txs == raw_json.transactions
    IN  (IF i = Len(txs) THEN Len(raw_json.calls) ELSE txs[i + 1].first_call)
        - txs[i].first_call

\* the time_ns samples of the k-th call (k = 0, 1, ...) of a transaction,
\* one per execution
Samples(raw_json, tx_hash, k) ==
    LET laps == SortedSeq(Laps(raw_json, tx_hash))
    IN  [n \in 1..Len(laps) |->
            raw_json.calls[raw_json.transactions[laps[n]].first_call + k + 1].time_ns]

\* the call table holds, for a transaction executed in L laps of n calls,
\* the n rows call_index 0..n-1 with the mean time of the L samples
OneRowPerCall(raw_json, calls) ==
    \A h \in RawHashes(raw_json) :
        LET n == CallsOf(raw_json, CHOOSE i \in Laps(raw_json, h) : TRUE)
            rows == {r \in 1..Len(calls) : calls[r].tx_hash = h}
        IN  /\ Cardinality(rows) = n
            /\ \A k \in 0..(n - 1) :
                  \E r \in rows :
                      /\ calls[r].call_index = k
                      /\ calls[r].time_ns.den * SumSeq(Samples(raw_json, h, k))
                         = calls[r].time_ns.num * Cardinality(Laps(raw_json, h))

\* C13: the call_index of a call is its zero-based position among the calls
\* of its own execution, so a transaction executed in L laps of n calls has
\* exactly the call rows 0..n-1, each with the mean time of its L samples,
\* whatever the order of the executions in the dump.
C13_CallIndexPerExecution ==
    /\ (df_txs_native # <<>>) => OneRowPerCall(native_data, df_calls_native)
    /\ (df_txs_vm # <<>>) => OneRowPerCall(vm_data, df_calls_vm)

(***************************************************************************)
(* Properties of the plot functions                                        *)
(***************************************************************************)
\* the raw calls of the native dump that the executions of a transaction
\* made with one resource
TimedCalls(tx_hash, resource) ==
    {p \in 0..(Len(native_data.calls) - 1) :
        /\ native_data.calls[p + 1].resource = resource
        /\ \E i \in Owners(native_data, p) : native_data.transactions[i].hash = tx_hash}

\* the summed native SierraGas call time of the transaction is positive and
\* its summed CairoSteps call time is zero
PureInDump(tx_hash) ==
    /\ \E p \in TimedCalls(tx_hash, "SierraGas") : native_data.calls[p + 1].time_ns > 0
    /\ \A p \in TimedCalls(tx_hash, "CairoSteps") : native_data.calls[p + 1].time_ns = 0

\* plot_pure_transactions has run
PureSplitDone ==
    xpc \in {"plot_time_by_gas", "plot_time_by_class", "plot_call_throughput",
             "plot_block_speedup", "plot_tx_speedup", "report", "done"}

Hashes(txs) == {txs[k].tx_hash : k \in 1..Len(txs)}

\* C14: plot_pure_transactions splits the transaction table into the pure
\* rows (resource_ratio = 1) and the non-pure rows (resource_ratio # 1), two
\* disjoint tables that together hold every row; a transaction is pure
\* exactly when its summed SierraGas call time is positive and its summed
\* CairoSteps call time is zero, so one with no timed call is non-pure.
C14_PureSplit ==
    PureSplitDone =>
        /\ Hashes(df_txs_only_gas) \cap Hashes(df_txs_mixed) = {}
        /\ Hashes(df_txs_only_gas) \cup Hashes(df_txs_mixed) = Hashes(df_txs)
        /\ Len(df_txs_only_gas) + Len(df_txs_mixed) = Len(df_txs)
        /\ \A k \in 1..Len(df_txs_only_gas) : df_txs_only_gas[k].resource_ratio = RatInt(1)
        /\ \A k \in 1..Len(df_txs_mixed) : df_txs_mixed[k].resource_ratio # RatInt(1)
        /\ \A h \in Hashes(df_txs) : (h \in Hashes(df_txs_only_gas)) <=> PureInDump(h)

\* C14 witness: the split has put one transaction into the pure table, one
\* with a timed CairoSteps call and one with no timed call at all into the
\* non-pure table.
C14_Witness ==
    /\ PureSplitDone
    /\ df_txs_only_gas # <<>>
    /\ \E k \in 1..Len(df_txs_mixed) : df_txs_mixed[k].resource_ratio.den = 0
    /\ \E k \in 1..Len(df_txs_mixed) : df_txs_mixed[k].resource_ratio.den # 0

\* the rows of a call table that took some time, in order
Timed(calls) == SelectSeq(calls, LAMBDA c : c.time_ns.num # 0)

\* a row of the merged call table is the loaded call with the executor
SameCall(row, loaded, executor) ==
    /\ row.tx_hash = loaded.tx_hash
    /\ row.call_index = loaded.call_index
    /\ row.time_ns = loaded.time_ns
    /\ row.executor = executor

\* C15: in the merged call table every row has executor "native" or "vm": a
\* call of the native run is labelled native when its resource is SierraGas
\* and vm when it is CairoSteps, every call of the VM run is labelled vm,
\* and no row with time_ns = 0 remains.
C15_ExecutorLabels ==
    Merged =>
        LET native_calls == Timed(load_data(native_data).df_calls)
            vm_calls == Timed(load_data(vm_data).df_calls)
        IN  /\ Len(df_calls) = Len(native_calls) + Len(vm_calls)
            /\ \A k \in 1..Len(df_calls) :
                  /\ df_calls[k].executor \in {"native", "vm"}
                  /\ df_calls[k].time_ns # RatInt(0)
            /\ \A k \in 1..Len(native_calls) :
                  SameCall(df_calls[k], native_calls[k],
                           IF native_calls[k].resource = "SierraGas" THEN "native"
                           ELSE "vm")
            /\ \A k \in 1..Len(vm_calls) :
                  SameCall(df_calls[Len(native_calls) + k], vm_calls[k], "vm")

\* C15 witness: the merged table holds a SierraGas call of the native run
\* labelled native, a CairoSteps call of the native run labelled vm and a
\* SierraGas call of the VM run labelled vm, and a call with no time was
\* dropped.
C15_Witness ==
    /\ Merged
    /\ LET native_calls == Timed(load_data(native_data).df_calls)
           vm_calls == Timed(load_data(vm_data).df_calls)
       IN  /\ \E k \in 1..Len(native_calls) :
                 native_calls[k].resource = "SierraGas" /\ df_calls[k].executor = "native"
           /\ \E k \in 1..Len(native_calls) :
                 native_calls[k].resource = "CairoSteps" /\ df_calls[k].executor = "vm"
           /\ \E k \in 1..Len(vm_calls) :
                 /\ vm_calls[k].resource = "SierraGas"
                 /\ df_calls[Len(native_calls) + k].executor = "vm"
    /\ Len(df_calls) < Len(df_calls_native) + Len(df_calls_vm)

\* plot_time_by_class has computed its table
TimeByClassDone ==
    xpc \in {"plot_call_throughput", "plot_block_speedup", "plot_tx_speedup", "report",
             "done"}

\* the classes of the merged call table with samples of both executors
SampledByBoth ==
    {df_calls[k].class_hash : k \in 1..Len(df_calls)}
    \cap {h \in {ClassOrder[n] : n \in 1..Len(ClassOrder)} :
            \A e \in {"native", "vm"} : group_times(df_calls, e, h) # <<>>}

\* C16: plot_time_by_class keeps only the classes with both native and VM
\* samples, at most 40 of them; the total_time of a class and executor is
\* the sum of the time_ns of its calls, the mean_time their mean, and the
\* speedup is the mean VM time over the mean native time.
C16_TimeByClass ==
    TimeByClassDone =>
        /\ Len(df_by_class) <= NLargest
        /\ Len(df_by_class) <= Cardinality(SampledByBoth)
        /\ \A k \in 1..Len(df_by_class) :
              LET row == df_by_class[k]
                  native_times == group_times(df_calls, "native", row.class_hash)
                  vm_times == group_times(df_calls, "vm", row.class_hash)
              IN  /\ row.class_hash \in SampledByBoth
                  /\ row.total_time_native = RatSum(native_times)
                  /\ row.total_time_vm = RatSum(vm_times)
                  /\ row.mean_time_native = RatDiv(RatSum(native_times),
                                                   RatInt(Len(native_times)))
                  /\ row.mean_time_vm = RatDiv(RatSum(vm_times), RatInt(Len(vm_times)))
                  /\ row.speedup = RatDiv(row.mean_time_vm, row.mean_time_native)

(***************************************************************************)
(* Properties of flatten_call_tree and flatten_call_trees                  *)
(***************************************************************************)
\* the ways from the top of a call tree to its nodes
RECURSIVE Paths(_, _)
Paths(call_tree, path) ==
    {path} \cup UNION {Paths(call_tree.inner[i], path \o <<i>>) :
                          i \in 1..Len(call_tree.inner)}

\* the node at the end of a way
RECURSIVE NodeAt(_, _)
NodeAt(call_tree, path) ==
    IF path = <<>> THEN call_tree ELSE NodeAt(call_tree.inner[Head(path)], Tail(path))

Above(p, q) == Len(p) < Len(q) /\ SubSeq(q, 1, Len(p)) = p

\* node p is in an inner subtree of node q, or in a subtree to the left of
\* the one that holds q
Before(p, q) ==
    \/ Above(q, p)
    \/ \E i \in 1..Len(p) :
          /\ i <= Len(q)
          /\ SubSeq(p, 1, i - 1) = SubSeq(q, 1, i - 1)
          /\ p[i] < q[i]

\* the list holds the root entry of every node exactly once, the entries of
\* the inner subtrees of a node before the entry of the node
FlattenedFrom(calls, call_tree) ==
    LET nodes == Paths(call_tree, <<>>)
    IN  /\ Len(calls) = Cardinality(nodes)
        /\ \A p \in nodes :
              Cardinality({i \in 1..Len(calls) : calls[i] = NodeAt(call_tree, p).root}) = 1
        /\ \A p, q \in nodes :
              Before(p, q) =>
                  \E i, j \in 1..Len(calls) :
                      /\ i < j
                      /\ calls[i] = NodeAt(call_tree, p).root
                      /\ calls[j] = NodeAt(call_tree, q).root
        /\ calls[Len(calls)] = call_tree.root

Keys == {"validate_call_info", "execute_call_info", "fee_transfer_call_info"}

\* C17: flatten_call_tree returns a list with the root entry of every node
\* of the tree exactly once, the calls of the inner subtrees before the
\* node and the root of the tree last; flatten_call_trees flattens each of
\* the three call infos that is not None and leaves None as None.
C17_FlattenPostOrder ==
    (ret.helper = "flatten_call_trees") =>
        \A key \in Keys :
            IF call_trees[key] = None THEN call_infos[key] = None
            ELSE /\ call_infos[key] # None
                 /\ FlattenedFrom(call_infos[key].list, call_trees[key])

\* C17 witness: a dict was flattened whose execute call tree has a node
\* with two inner calls, one of which has an inner call itself, and whose
\* validate call info is None.
C17_Witness ==
    /\ ret.helper = "flatten_call_trees"
    /\ call_trees.validate_call_info = None
    /\ call_trees.execute_call_info # None
    /\ Len(call_trees.execute_call_info.inner) = 2
    /\ Len(call_trees.execute_call_info.inner[1].inner) = 1
    /\ Len(call_infos.execute_call_info.list) = 4

(***************************************************************************)
(* Properties of count_transfers, count_swaps and count_tx                 *)
(***************************************************************************)
\* the two copies under src/plotting
PlottingCopies == {"plot_block_composition", "plot_transfers_swaps"}

\* a transaction that is not None, with an execute_call_info that is not
\* None and holds a swap
HasSwap(tx) ==
    /\ tx # None
    /\ tx.execute_call_info # None
    /\ \E i \in 1..Len(tx.execute_call_info.list) :
          tx.execute_call_info.list[i].selector \in SWAP_ENTRYPOINT_HASHES

\* C18: in both copies under src/plotting, count_swaps returns the number
\* of transactions that are not None, have an execute_call_info that is not
\* None and hold an entrypoint with a swap selector; None entries raise
\* nothing, and the two copies return the same value.
C18_CountSwaps ==
    (script \in PlottingCopies /\ ret.helper = "count_swaps") =>
        /\ ret.outcome = Returned(RatInt(Len(SelectSeq(entrypoints, HasSwap))))
        /\ \A sc \in PlottingCopies : count_swaps(sc, entrypoints) = ret.outcome

\* a transaction that is not None, with an execute_call_info that is not
\* None, of at most two entrypoints, one of them the transfer
PureTransfer(tx) ==
    /\ tx # None
    /\ tx.execute_call_info # None
    /\ Len(tx.execute_call_info.list) <= 2
    /\ \E i \in 1..Len(tx.execute_call_info.list) :
          tx.execute_call_info.list[i].selector = TRANSFER_ENTRYPOINT_HASH

\* C19: count_transfers of the copies under src/plotting raises nothing and
\* counts a transaction only if it is not None, its execute_call_info is not
\* None and has at most two entrypoints, one of them with the transfer
\* selector: the count is 0 without such a transaction, and the others,
\* those of three or more entrypoints included, add nothing to it.
C19_TransfersOnlyPure ==
    (script \in PlottingCopies /\ ret.helper = "count_transfers") =>
        /\ "value" \in DOMAIN ret.outcome
        /\ (SelectSeq(entrypoints, PureTransfer) = <<>>) => ret.outcome = Returned(RatInt(0))
        /\ ret.outcome = count_transfers(script, SelectSeq(entrypoints, PureTransfer))
        /\ ~RatLess(ret.outcome.value, RatInt(Len(SelectSeq(entrypoints, PureTransfer))))

\* C19 witness: count_transfers returned 1 for a block of a None entry, a
\* transfer of two entrypoints and a transaction of three entrypoints that
\* holds the transfer selector.
C19_Witness ==
    /\ script \in PlottingCopies /\ ret.helper = "count_transfers"
    /\ ret.outcome = Returned(RatInt(1))
    /\ \E i \in 1..Len(entrypoints) : entrypoints[i] = None
    /\ \E i \in 1..Len(entrypoints) : entrypoints[i] = Tx(List(<<EpExecute, EpTransfer>>))
    /\ \E i \in 1..Len(entrypoints) :
          entrypoints[i] = Tx(List(<<EpExecute, EpSwap, EpTransfer>>))

\* C20: for every transaction list, count_transfers and count_swaps return
\* at most count_tx, and the transfer and swap percentages are between 0
\* and 100.
C20_CountsAtMostTx ==
    (script \in PlottingCopies) =>
        /\ (ret.helper \in {"count_transfers", "count_swaps"}) =>
              /\ "value" \in DOMAIN ret.outcome
              /\ ~RatLess(RatInt(count_tx(entrypoints)), ret.outcome.value)
        /\ (ret.helper \in {"count_transfers_ptg", "count_swaps_ptg"}) =>
              /\ "value" \in DOMAIN ret.outcome
              /\ ~RatLess(ret.outcome.value, RatInt(0))
              /\ ~RatLess(RatInt(100), ret.outcome.value)

(***************************************************************************)
(* Properties of extract_call.py                                           *)
(***************************************************************************)
\* the ways from the top of a call info to its nodes
RECURSIVE CallPaths(_, _)
CallPaths(call_info, path) ==
    {path} \cup UNION {CallPaths(call_info.inner_calls[i], path \o <<i>>) :
                          i \in 1..Len(call_info.inner_calls)}

RECURSIVE CallAt(_, _)
CallAt(call_info, path) ==
    IF path = <<>> THEN call_info
    ELSE CallAt(call_info.inner_calls[Head(path)], Tail(path))

\* node p is met before node q by a depth-first search that looks at a
\* node before its inner calls and at the inner calls in order
MetBefore(p, q) ==
    \/ Above(p, q)
    \/ \E i \in 1..Len(p) :
          /\ i <= Len(q)
          /\ SubSeq(p, 1, i - 1) = SubSeq(q, 1, i - 1)
          /\ p[i] < q[i]

\* the nodes of the execute call tree with the requested call_counter
Matches ==
    {p \in CallPaths(execution_info.execute_call_info, <<>>) :
        CallAt(execution_info.execute_call_info, p).call_counter = index_arg}

FirstMatch ==
    CallAt(execution_info.execute_call_info,
           CHOOSE p \in Matches : \A q \in Matches : q = p \/ MetBefore(p, q))

\* C21: find_call returns a node whose call_counter is the requested index
\* exactly when the execute call tree holds one, the first such node of a
\* depth-first search that looks at a node before its inner calls and at
\* the inner calls in order; without a match the script prints "failed to
\* find call" to stderr, writes nothing to stdout and exits with status 1,
\* with a match it writes the "call" of that node as JSON to stdout.
C21_FindCall ==
    (execution_info.execute_call_info # None) =>
        /\ (cpc \in {"found", "exited"}) =>
              IF Matches = {} THEN target_call_info = None
              ELSE target_call_info = FirstMatch
        /\ (cpc = "exited") =>
              IF Matches = {}
              THEN /\ stderr = <<"failed to find call">>
                   /\ stdout = <<>>
                   /\ exit_code = 1
              ELSE /\ stdout = <<Token("{", 0), Token("key", "calldata"),
                                  Token("value", FirstMatch.call[1][2]), Token("}", 0)>>
                   /\ stderr = <<>>
                   /\ exit_code = 0

\* C21 witness: the script has written the call of a node that is not the
\* root, in a tree where a node met later has the same call_counter.
C21_Witness ==
    /\ cpc = "exited" /\ exit_code = 0
    /\ execution_info.execute_call_info # None
    /\ Cardinality(Matches) = 2
    /\ <<>> \notin Matches
    /\ stdout # <<>>

\* the script has ended without a match
C21_NoMatchReached ==
    /\ cpc = "exited" /\ exit_code = 1
    /\ execution_info.execute_call_info # None
    /\ Len(execution_info.execute_call_info.inner_calls) = 2

(***************************************************************************)
(* Properties of parse_execution_time.py                                   *)
(***************************************************************************)
\* the message holds "contract execution finished" and no span of the
\* record is named "caching block range"
KeptEvent(event) ==
    /\ StrIn(ExecutionFinished, event.fields.message)
    /\ \A i \in 1..Len(event.spans) : ~StrIn(CachingBlockRange, event.spans[i].name)

\* the JSON line of the canonicalized row of a kept event
ExecutionLine(event) ==
    <<Token("{", 0),
      Token("key", "class hash"), Token("value", hex(event.span.class_hash)),
      Token("key", "time"), Token("value", float(event.fields.time)),
      Token("}", 0)>>

ExecutionLines(events) ==
    [i \in 1..Len(SelectSeq(events, KeptEvent)) |->
        ExecutionLine(SelectSeq(events, KeptEvent)[i])]

\* C22: when process(input) has ended, the file "<input>-execution" holds
\* exactly one JSON line per kept event, the canonicalized row, in the
\* order of the input, whatever the chunk size; what the file held before
\* is gone, a second run on the same input leaves the same file, and an
\* input with no kept event leaves an empty file.
C22_ExecutionFile ==
    (epc = "exited") => output_file = ExecutionLines(log)

\* C22 witness: the script has run twice with chunks of two records on an
\* input of three, whose first and third records are kept and fall into
\* different chunks; the file holds their two lines, class hashes in hex.
C22_Witness ==
    /\ epc = "exited" /\ runs = 2
    /\ parse_chunksize = 2 /\ Len(log) = 3
    /\ KeptEvent(log[1]) /\ ~KeptEvent(log[2]) /\ KeptEvent(log[3])
    /\ log[1] # log[3]
    /\ Len(output_file) = 2
    /\ \E i \in 1..2 : output_file[i][3] = Token("value", <<"0", "x", "f", "f">>)
    /\ \E i \in 1..2 : output_file[i][3] = Token("value", <<"0", "x", "a">>)

\* a run on an input without kept event has ended with an empty file
C22_EmptyReached ==
    /\ epc = "exited"
    /\ Len(log) = 2
    /\ SelectSeq(log, KeptEvent) = <<>>
    /\ output_file = <<>>

====
